---- MODULE Spec2Model ----
(***************************************************************************)
(* A model of the truckeelights client: the Image Normalizer               *)
(* (utils/imageUtils.js), the House Registry (the Home page's addMarker),  *)
(* the photo upload batch and the Map Presenter (components/Map.js).       *)
(* Each part has its own specification over the shared variables; the      *)
(* variables of the parts a specification does not step keep their idle    *)
(* values.                                                                 *)
(***************************************************************************)
EXTENDS Integers, Sequences, FiniteSets, TLC

VARIABLES
    \* ---- resizeImage (utils/imageUtils.js) ----
    rpc,            \* position of the resizeImage call
    quality,        \* the local `quality`, an IEEE double (see Dbl below)
    resizedImage,   \* the local `resizedImage`: a file, or Undefined
    attempts,       \* the readAndCompressImage calls made so far
    \* ---- Home page (unnamed/part_001): the House Registry ----
    dbHouses,       \* the `houses` collection of the document store, in write order
    houses,         \* Home's `houses` state
    selectedHouse,  \* Home's `selectedHouse` state
    housesGen,      \* the identity of the `houses` array: setHouses calls so far
    selectedGen,    \* the identity of the `selectedHouse` object
    fetchPc,        \* the fetchHouses call of the mount effect
    calls,          \* the addMarker calls: call id -> record
    \* ---- Map component (components/Map.js) and the map widgets ----
    mapUtils,       \* which of the two helper modules the build links
    map,            \* the `map` state: a map instance, or NoMap
    deps,           \* the dependencies seen by the last run of the effects
    initMaps,       \* the initMap calls awaiting loader.load()
    infoWindow,     \* the InfoWindow of infoWindowRef.current
    addHouseInfoWindowRef,  \* addHouseInfoWindowRef.current: a prompt id, or NoPrompt
    markersRef,     \* markersRef.current
    markersMapRef,  \* markersMapRef.current: house id -> marker
    placed,         \* the markers that are on a map
    prompts,        \* the open "Add House" InfoWindows
    geocodes,       \* the geocode requests of map clicks awaiting their callback
    photoFetches,   \* the showHouseInfoWindow calls awaiting fetchHousePhotos
    onceClick,      \* the maps with a once-only click listener that closes the InfoWindow
    domreadyOnce,   \* the once-only domready listeners on the InfoWindow
    sidebarGeocodes, \* the number of Sidebar geocode requests awaiting their callback
    clickClosure,   \* the `houses` that the click listener of the current map closes over
    crashed,        \* an effect has thrown: the component tree is unmounted
    \* ---- photo upload (components/Map.js, fileInput.onchange) ----
    batches,        \* the upload batches: batch id -> record
    dbPhotos,       \* the photo documents of the store
    storage,        \* the objects of the file store
    indicators,     \* the number of loading indicators in the page
    \* ---- Admin page (unnamed/part_000) and the auth provider ----
    authUser,       \* auth.currentUser: "admin", or None
    authEvents,     \* the onAuthStateChanged callbacks awaiting their run
    user,           \* Admin's `user` state
    loading,        \* Admin's `loading` state
    photos,         \* Admin's `photos` state
    adminFetches,   \* the fetchPhotos calls: call id -> record
    logins,         \* the number of signInWithEmailAndPassword calls awaiting their answer
    logouts,        \* the number of signOut calls awaiting their answer
    approves,       \* the handleApprove calls awaiting updateDoc
    adminAlerts,    \* the alerts the Admin page has shown, in order
    loginCalls,     \* the number of handleLogin calls so far
    normIn,         \* an address string handed to the normalisation
    normOut,        \* its normalised forms, by the site that computed them
    normDone,       \* the sites that have computed theirs
    \* ---- window.alert of the geocode callbacks (Map.js, unnamed/part_003) ----
    geoAlerts,      \* the alerts the geocode callbacks have shown, in order
    \* ---- smoothZoom (components/Map.js) and the zoom of the map widget ----
    zoom,           \* map.getZoom()
    zoomTimers,     \* the setInterval timers of smoothZoom: timer id -> record
    setZooms        \* the zoom changes made outside smoothZoom so far

None == "none"

resizeVars == <<rpc, quality, resizedImage, attempts>>

regVars == <<dbHouses, houses, selectedHouse, housesGen, selectedGen, fetchPc, calls>>

mapVars ==
    <<mapUtils, map, deps, initMaps, infoWindow, addHouseInfoWindowRef, markersRef,
      markersMapRef, placed, prompts, geocodes, photoFetches, onceClick,
      domreadyOnce, sidebarGeocodes, clickClosure, crashed, batches, indicators>>

upVars == <<dbPhotos, storage>>

adminVars ==
    <<authUser, authEvents, user, loading, photos, adminFetches, logins, logouts,
      approves, adminAlerts, loginCalls>>

normVars == <<normIn, normOut, normDone>>

alertVars == <<geoAlerts>>

zoomVars == <<zoom, zoomTimers, setZooms>>

vars == <<resizeVars, regVars, mapVars, upVars, adminVars, normVars, alertVars, zoomVars>>

notResize == <<regVars, mapVars, upVars, adminVars, normVars, alertVars, zoomVars>>
notReg == <<resizeVars, mapVars, upVars, adminVars, normVars, alertVars, zoomVars>>

(***************************************************************************)
(* IEEE-754 doubles in [0, 1), as used by `quality`.  A double is held as   *)
(* the pair <<hi, lo>> of base-2^28 limbs of its value in units of 2^-56:   *)
(* every double that the loop computes is a multiple of 2^-56.  Subtraction *)
(* is exact subtraction followed by rounding to 53 significant bits, ties   *)
(* to even, as the hardware does it.                                        *)
(***************************************************************************)
Limb == 2^28

\* The literal 0.7 = 0x1.6666666666666p-1.
Dbl07 == <<187904819, 53687088>>

\* The literal 0.1 = 0x1.999999999999ap-4.
Dbl01 == <<26843545, 161061274>>

\* a > b on doubles.
DblGt(a, b) == a[1] > b[1] \/ (a[1] = b[1] /\ a[2] > b[2])

\* The spacing of doubles (in units of 2^-56) in the binade of a value with
\* high limb hi.
Ulp(hi) == IF hi >= 2^27 THEN 8 ELSE IF hi >= 2^26 THEN 4 ELSE IF hi >= 2^25 THEN 2 ELSE 1

\* Round the exact value <<hi, lo>> to the nearest double, ties to even.
DblRound(hi, lo) ==
    LET u  == Ulp(hi)
        r  == lo % u
        dn == lo - r
        up == (2 * r > u) \/ (2 * r = u /\ (lo \div u) % 2 = 1)
        q  == IF up THEN dn + u ELSE dn
    IN  IF q = Limb THEN <<hi + 1, 0>> ELSE <<hi, q>>

\* a - b on doubles, for a >= b.
DblSub(a, b) ==
    LET borrow == a[2] < b[2]
        lo     == IF borrow THEN a[2] + Limb - b[2] ELSE a[2] - b[2]
        hi     == IF borrow THEN a[1] - 1 - b[1] ELSE a[1] - b[1]
    IN  DblRound(hi, lo)

(***************************************************************************)
(* resizeImage                                                             *)
(***************************************************************************)
MAX_SIZE_BYTES == 5 * 1024 * 1024

\* The byte sizes readAndCompressImage can produce for the file at hand.
BlobSizes == {1, MAX_SIZE_BYTES, MAX_SIZE_BYTES + 1, 2 * MAX_SIZE_BYTES}

\* `tempImage.size <= MAX_SIZE_BYTES`
FitsCapOpen(size) == size <= MAX_SIZE_BYTES + 1
FitsCap(size) == size <= MAX_SIZE_BYTES

\* `while (quality > 0.1)`
LoopGuard(q) == DblGt(q, Dbl01)

\* `let resizedImage;` and a File of `size` bytes.
Undefined == [defined |-> FALSE, size |-> 0]
File(size) == [defined |-> TRUE, size |-> size]

\* resizeImage(imageFile) is called: `let quality = 0.7; let resizedImage;`
ResizeCall ==
    /\ rpc = "idle"
    /\ rpc' = "loop"
    /\ quality' = Dbl07
    /\ resizedImage' = Undefined
    /\ attempts' = <<>>
    /\ UNCHANGED notResize

\* One pass of the loop body in which readAndCompressImage resolves with a
\* blob of `size` bytes.
ResizeAttempt(size) ==
    /\ rpc = "loop"
    /\ LoopGuard(quality)
    /\ attempts' = Append(attempts, [quality |-> quality, resolved |-> TRUE, size |-> size])
    /\ IF FitsCap(size)
         THEN /\ resizedImage' = File(size)
              /\ rpc' = "returned"
              /\ UNCHANGED quality
         ELSE /\ quality' = DblSub(quality, Dbl01)
              /\ UNCHANGED <<resizedImage, rpc>>
    /\ UNCHANGED notResize

\* One pass of the loop body in which readAndCompressImage rejects: the
\* catch block rethrows.
ResizeAttemptThrows ==
    /\ rpc = "loop"
    /\ LoopGuard(quality)
    /\ attempts' = Append(attempts, [quality |-> quality, resolved |-> FALSE, size |-> 0])
    /\ rpc' = "thrown"
    /\ UNCHANGED <<quality, resizedImage>>
    /\ UNCHANGED notResize

\* The loop guard fails with no result: `if (!resizedImage) throw`.
ResizeGiveUp ==
    /\ rpc = "loop"
    /\ ~LoopGuard(quality)
    /\ ~resizedImage.defined
    /\ rpc' = "thrown"
    /\ UNCHANGED <<quality, resizedImage, attempts>>
    /\ UNCHANGED notResize

ResizeNext ==
    \/ ResizeCall
    \/ \E size \in BlobSizes : ResizeAttempt(size)
    \/ ResizeAttemptThrows
    \/ ResizeGiveUp

(***************************************************************************)
(* C9: resizeImage returns a file only if its byte size is at most 5 MiB;  *)
(* a call that has ended has either returned such a file or thrown, and a  *)
(* call that threw returned nothing.                                       *)
(***************************************************************************)
C9_ReturnsWithinCap ==
    /\ rpc = "returned" => (resizedImage.defined /\ resizedImage.size <= 5 * 1024 * 1024)
    /\ rpc = "thrown" => ~resizedImage.defined

\* A file of exactly 5 MiB is returned after oversize attempts.
C9_Witness ==
    /\ rpc = "returned"
    /\ Len(attempts) > 1
    /\ resizedImage.size = 5 * 1024 * 1024

(***************************************************************************)
(* C10: resizeImage makes at most six attempts, at the qualities 0.7 down   *)
(* to 0.2 and none at a quality of 0.1 or lower; it returns the result of  *)
(* the first attempt within the cap and fails when every attempt is        *)
(* oversize.                                                               *)
(***************************************************************************)
C10_AtMostSixAttempts ==
    /\ Len(attempts) <= 6
    /\ \A i \in 1..Len(attempts) : DblGt(attempts[i].quality, Dbl01)
    /\ rpc = "returned" =>
          /\ attempts[Len(attempts)].size = resizedImage.size
          /\ \A i \in 1..(Len(attempts) - 1) : attempts[i].size > MAX_SIZE_BYTES

(***************************************************************************)
(* Strings.  An address is a sequence of characters; trim and toLowerCase  *)
(* are computed on it.                                                     *)
(***************************************************************************)
IsSpace(ch) == ch = " "

\* String.prototype.toLowerCase on one character.
LowerChar(ch) == IF ch = "A" THEN "a" ELSE IF ch = "B" THEN "b" ELSE ch

ToLowerCase(str) == [i \in 1..Len(str) |-> LowerChar(str[i])]

RECURSIVE TrimStart(_)
TrimStart(str) ==
    IF str # <<>> /\ IsSpace(Head(str)) THEN TrimStart(Tail(str)) ELSE str

RECURSIVE TrimEnd(_)
TrimEnd(str) ==
    IF str # <<>> /\ IsSpace(str[Len(str)])
      THEN TrimEnd(SubSeq(str, 1, Len(str) - 1))
      ELSE str

\* String.prototype.trim
Trim(str) == TrimEnd(TrimStart(str))

\* `address.trim().toLowerCase()` of addMarker.
NormalizeAddress(address) == ToLowerCase(Trim(address))

\* `const normalizeAddress = (address) => address.trim().toLowerCase()` of the
\* Sidebar.
normalizeAddressTrimOnly(address) == Trim(address)
normalizeAddress(address) == ToLowerCase(Trim(address))

\* The normalised forms before any site has computed one.
NoForms == [map |-> <<>>, sidebar |-> <<>>, mapTwice |-> <<>>, sidebarTwice |-> <<>>]

\* The address strings handed to the normalisation: up to MaxLen characters.
MaxLen == 3
Chars == {" ", "a", "A", "b"}
Strings == UNION { [1..n -> Chars] : n \in 0..MaxLen }

NormOnly == UNCHANGED <<resizeVars, regVars, mapVars, upVars, adminVars, alertVars, zoomVars>>

\* addMarker computes the normalised form of the address.
NormalizeInAddMarker ==
    /\ "map" \notin normDone
    /\ normOut' = [normOut EXCEPT !.map = NormalizeAddress(normIn)]
    /\ normDone' = normDone \cup {"map"}
    /\ UNCHANGED normIn
    /\ NormOnly

\* handleAddressSubmit computes the normalised form of the address.
NormalizeInSidebar ==
    /\ "sidebar" \notin normDone
    /\ normOut' = [normOut EXCEPT !.sidebar = normalizeAddress(normIn)]
    /\ normDone' = normDone \cup {"sidebar"}
    /\ UNCHANGED normIn
    /\ NormOnly

\* addMarker is handed a normalised form as its address.
NormalizeAgainInAddMarker ==
    /\ "map" \in normDone /\ "mapTwice" \notin normDone
    /\ normOut' = [normOut EXCEPT !.mapTwice = NormalizeAddress(normOut.map)]
    /\ normDone' = normDone \cup {"mapTwice"}
    /\ UNCHANGED normIn
    /\ NormOnly

\* handleAddressSubmit is handed a normalised form as its address.
NormalizeAgainInSidebar ==
    /\ "sidebar" \in normDone /\ "sidebarTwice" \notin normDone
    /\ normOut' = [normOut EXCEPT !.sidebarTwice = normalizeAddress(normOut.sidebar)]
    /\ normDone' = normDone \cup {"sidebarTwice"}
    /\ UNCHANGED normIn
    /\ NormOnly

NormalizeNext ==
    \/ NormalizeInAddMarker
    \/ NormalizeInSidebar
    \/ NormalizeAgainInAddMarker
    \/ NormalizeAgainInSidebar

(***************************************************************************)
(* C25: normalising a normalised address gives the same string, in         *)
(* addMarker and in the Sidebar, and both compute the same normalised form *)
(* of an address.                                                          *)
(***************************************************************************)
C25_NormalizeIdempotent ==
    /\ "mapTwice" \in normDone => normOut.mapTwice = normOut.map
    /\ "sidebarTwice" \in normDone => normOut.sidebarTwice = normOut.sidebar
    /\ {"map", "sidebar"} \subseteq normDone => normOut.map = normOut.sidebar

\* Every site has normalised " A " and its normalised form "a".
C25_Witness ==
    /\ normIn = <<" ", "A", " ">>
    /\ normDone = {"map", "sidebar", "mapTwice", "sidebarTwice"}
    /\ normOut.map = <<"a">>
    /\ normOut.sidebarTwice = <<"a">>

(***************************************************************************)
(* The Home page: houseExists, addMarker and the fetchHouses mount effect. *)
(***************************************************************************)
\* The addresses submitted to addMarker.
Addresses ==
    { <<>>, <<" ">>, <<"a">>, <<"A">>, <<" ", "a">>, <<"A", " ">>, <<"b">> }

\* The `location` values: an object with usable lat and lng, an object whose
\* lat or lng is missing or zero, and null.
LatLng == "latlng"
NoCoords == "nocoords"
Null == "null"
Locations == {LatLng, Null}

\* Document ids are positive; a house that is not persisted has id null.
NullId == 0

\* `useState(null)` of selectedHouse.
NoHouse ==
    [id |-> NullId, address |-> <<>>, normalizedAddress |-> <<>>,
     location |-> Null, hasLights |-> FALSE]

\* The number of addMarker calls of a behaviour.
MaxCalls == 2

CallIds == 1..MaxCalls

FreeCall ==
    [pc |-> "free", address |-> <<>>, location |-> Null, closure |-> <<>>,
     alert |-> None, solo |-> FALSE, check |-> None]

\* The house documents of the store whose normalizedAddress is n.
Matching(n) == { i \in 1..Len(dbHouses) : dbHouses[i].normalizedAddress = n }

\* The snapshot of `query(collection(db, "houses"), orderBy("createdAt", "desc"))`.
NewestFirst == [i \in 1..Len(dbHouses) |-> dbHouses[Len(dbHouses) + 1 - i]]

\* `if (!normalizedAddress) return false`: houseExists answers without a query.
SkipsQuery(n) == n = <<>>

\* The answer of houseExists when its query succeeds.
ExistsAnswer(n) == Matching(n) # {}

\* The document addDoc writes, with its generated id.
NewHouseUntrimmed(c) ==
    [id |-> Len(dbHouses) + 1,
     address |-> calls[c].address,
     normalizedAddress |-> ToLowerCase(calls[c].address),
     location |-> calls[c].location,
     hasLights |-> TRUE]
NewHouse(c) ==
    [id |-> Len(dbHouses) + 1,
     address |-> calls[c].address,
     normalizedAddress |-> NormalizeAddress(calls[c].address),
     location |-> calls[c].location,
     hasLights |-> TRUE]

\* The mount effect's getDocs resolves: setHouses(housesList).
FetchHousesResolve ==
    /\ fetchPc = "pending"
    /\ fetchPc' = "done"
    /\ houses' = NewestFirst
    /\ housesGen' = housesGen + 1
    /\ UNCHANGED <<dbHouses, selectedHouse, selectedGen, calls>>
    /\ UNCHANGED notReg

\* The mount effect's getDocs rejects: the error is logged.
FetchHousesFail ==
    /\ fetchPc = "pending"
    /\ fetchPc' = "failed"
    /\ UNCHANGED <<dbHouses, houses, selectedHouse, housesGen, selectedGen, calls>>
    /\ UNCHANGED notReg

\* The other calls are not in flight.
Alone(c) == \A d \in CallIds \ {c} : calls[d].pc \in {"free", "done"}

\* addMarker(address, location) is called; it runs to its first await.  The
\* call keeps the `houses` of the render that created it.  (The history field
\* `solo` records that no other call has been in flight since the call began,
\* the history field `check` how houseExists came to its answer.)
AddMarkerStart(c, address, location, closure) ==
    /\ calls[c].pc = "free"
    /\ \A d \in CallIds : d < c => calls[d].pc # "free"
    /\ calls' = [d \in CallIds |->
          IF d # c THEN [calls[d] EXCEPT !.solo = FALSE]
          ELSE IF address = <<>> \/ location = Null
            THEN [pc |-> "done", address |-> address, location |-> location,
                  closure |-> closure, alert |-> "invalid", solo |-> Alone(c),
                  check |-> None]
            ELSE [pc |-> "exists", address |-> address, location |-> location,
                  closure |-> closure, alert |-> None, solo |-> Alone(c),
                  check |-> None]]
    /\ UNCHANGED <<dbHouses, houses, selectedHouse, housesGen, selectedGen, fetchPc>>

\* The call is made with the addMarker of the current render.
AddMarkerCall(c, address, location) ==
    /\ AddMarkerStart(c, address, location, houses)
    /\ UNCHANGED notReg

\* `await houseExists(normalizedAddress)` resolves with the answer of the
\* query (or with false when houseExists made no query); on true the call
\* alerts and returns, on false it issues addDoc.
ExistsResolve(c) ==
    LET n      == NormalizeAddress(calls[c].address)
        exists == IF SkipsQuery(n) THEN FALSE ELSE ExistsAnswer(n)
    IN  /\ calls[c].pc = "exists"
        /\ calls' = [calls EXCEPT ![c].pc = IF exists THEN "done" ELSE "addDoc",
                                  ![c].alert = IF exists THEN "duplicate" ELSE None,
                                  ![c].check = IF SkipsQuery(n) THEN "skipped"
                                                                ELSE "completed"]
        /\ UNCHANGED <<dbHouses, houses, selectedHouse, housesGen, selectedGen, fetchPc>>
        /\ UNCHANGED notReg

\* The query of houseExists rejects: houseExists logs and returns false, and
\* the call issues addDoc.
ExistsQueryFails(c) ==
    /\ calls[c].pc = "exists"
    /\ ~SkipsQuery(NormalizeAddress(calls[c].address))
    /\ calls' = [calls EXCEPT ![c].pc = "addDoc", ![c].check = "failed"]
    /\ UNCHANGED <<dbHouses, houses, selectedHouse, housesGen, selectedGen, fetchPc>>
    /\ UNCHANGED notReg

\* `setHouses([newHouse, ...houses])` with the `houses` of the call.
WithNewHouseLast(h, closure) == closure \o <<h>>
WithNewHouse(h, closure) == <<h>> \o closure

\* `await addDoc(...)` resolves: the document is in the store, and the call
\* runs setHouses([newHouse, ...houses]) and setSelectedHouse(newHouse).
AddDocResolve(c) ==
    /\ calls[c].pc = "addDoc"
    /\ dbHouses' = Append(dbHouses, NewHouse(c))
    /\ houses' = WithNewHouse(NewHouse(c), calls[c].closure)
    /\ selectedHouse' = NewHouse(c)
    /\ housesGen' = housesGen + 1
    /\ selectedGen' = selectedGen + 1
    /\ calls' = [calls EXCEPT ![c].pc = "done"]
    /\ UNCHANGED fetchPc
    /\ UNCHANGED notReg

\* `await addDoc(...)` rejects: the catch block alerts.
AddDocFails(c) ==
    /\ calls[c].pc = "addDoc"
    /\ calls' = [calls EXCEPT ![c].pc = "done", ![c].alert = "error"]
    /\ UNCHANGED <<dbHouses, houses, selectedHouse, housesGen, selectedGen, fetchPc>>
    /\ UNCHANGED notReg

RegNext ==
    \/ FetchHousesResolve
    \/ FetchHousesFail
    \/ \E c \in CallIds, address \in Addresses, location \in Locations :
          AddMarkerCall(c, address, location)
    \/ \E c \in CallIds : ExistsResolve(c)
    \/ \E c \in CallIds : ExistsQueryFails(c)
    \/ \E c \in CallIds : AddDocResolve(c)
    \/ \E c \in CallIds : AddDocFails(c)

(***************************************************************************)
(* C2: the houses collection holds at most one house per normalizedAddress.*)
(***************************************************************************)
C2_OnePerNormalizedAddress ==
    \A i, j \in 1..Len(dbHouses) :
        dbHouses[i].normalizedAddress = dbHouses[j].normalizedAddress => i = j

(***************************************************************************)
(* C3: with a house of normalized address n persisted and no other call in *)
(* flight, the existence check of an addMarker call whose address          *)
(* normalizes to n ends in the duplicate notification, and the call writes *)
(* no house and leaves the house list and the selected house unchanged.    *)
(***************************************************************************)
C3_DuplicateRejected ==
    [][\A c \in CallIds :
          ( /\ calls[c].pc = "exists"
            /\ calls'[c].pc # "exists"
            /\ calls[c].solo
            /\ \E i \in 1..Len(dbHouses) :
                   dbHouses[i].normalizedAddress = ToLowerCase(Trim(calls[c].address)) )
          => /\ calls'[c].pc = "done"
             /\ calls'[c].alert = "duplicate"
             /\ UNCHANGED <<dbHouses, houses, selectedHouse>>]_vars

C21_CreatedHouse ==
    [][\A c \in CallIds :
          AddDocResolve(c)
          => /\ Len(dbHouses') = Len(dbHouses) + 1
             /\ SubSeq(dbHouses', 1, Len(dbHouses)) = dbHouses
             /\ LET h == dbHouses'[Len(dbHouses')]
                IN  /\ h.address = calls[c].address
                    /\ h.normalizedAddress = ToLowerCase(Trim(calls[c].address))
                    /\ h.location = calls[c].location
                    /\ h.hasLights
                    /\ h.id # NullId
                    /\ \A i \in 1..Len(dbHouses) : dbHouses[i].id # h.id
                    /\ houses' # <<>> /\ houses'[1] = h
                    /\ selectedHouse' = h]_vars

\* The call for "A " has created the house of normalizedAddress "a", which
\* is selected and stands before the houses that were loaded.
C21_Witness ==
    /\ \E c \in CallIds :
          calls[c].pc = "done" /\ calls[c].alert = None /\ calls[c].address = <<"A", " ">>
    /\ selectedHouse.normalizedAddress = <<"a">>
    /\ Len(houses) >= 2
    /\ houses[1] = selectedHouse

(***************************************************************************)
(* The Map component.  Map instances are numbered in creation order; the   *)
(* `map` state holds the latest one.  A marker is the record of the house  *)
(* it stands for, the map it is on and the `map` that the                  *)
(* showHouseInfoWindow of its click listener closes over.                  *)
(***************************************************************************)
NoMap == 0
NoPrompt == 0

\* `!house.location || !house.location.lat || !house.location.lng` is false.
HasValidLocation(house) == house.location = LatLng

\* What createEmojiMarker returns for a house without valid location.
NullMarker == [house |-> NullId, onMap |-> NoMap, cmap |-> NoMap]

\* createEmojiMarker(mapInstance, house, showHouseInfoWindow)
createEmojiMarker(onMap, house, cmap) ==
    IF ~HasValidLocation(house)
      THEN NullMarker
      ELSE [house |-> house.id, onMap |-> onMap, cmap |-> cmap]

\* initializeInfoWindow(): a new, closed InfoWindow.
NewInfoWindow(inst) ==
    [inst |-> inst, open |-> FALSE, onMap |-> NoMap, house |-> NullId,
     photos |-> {}, domPending |-> FALSE, listeners |-> <<>>, disabled |-> FALSE]

\* The upload batches: one per run of the upload button's click listener.
MaxBatches == 2
BatchIds == 1..MaxBatches

\* The number of batches of the behaviours that follow a single batch.
OneBatch == 1
FreeBatch ==
    [pc |-> "free", house |-> NullId, marker |-> NullMarker, cmap |-> NoMap,
     btn |-> FALSE, tasks |-> <<>>, alert |-> None]

\* The mutable state of the component and of its widgets, as one record on
\* which the handlers below work.
MapState ==
    [map |-> map, initMaps |-> initMaps, infoWindow |-> infoWindow,
     addHouseInfoWindowRef |-> addHouseInfoWindowRef, markersRef |-> markersRef,
     markersMapRef |-> markersMapRef, placed |-> placed, prompts |-> prompts,
     geocodes |-> geocodes, photoFetches |-> photoFetches, onceClick |-> onceClick,
     domreadyOnce |-> domreadyOnce, clickClosure |-> clickClosure,
     crashed |-> crashed, batches |-> batches,
     indicators |-> indicators, ret |-> NoPrompt, overflow |-> FALSE]

\* The step leaves the component in state m.
Commit(m) ==
    /\ ~m.overflow
    /\ map' = m.map
    /\ initMaps' = m.initMaps
    /\ infoWindow' = m.infoWindow
    /\ addHouseInfoWindowRef' = m.addHouseInfoWindowRef
    /\ markersRef' = m.markersRef
    /\ markersMapRef' = m.markersMapRef
    /\ placed' = m.placed
    /\ prompts' = m.prompts
    /\ geocodes' = m.geocodes
    /\ photoFetches' = m.photoFetches
    /\ onceClick' = m.onceClick
    /\ domreadyOnce' = m.domreadyOnce
    /\ clickClosure' = m.clickClosure
    /\ crashed' = m.crashed
    /\ batches' = m.batches
    /\ indicators' = m.indicators

\* `markersMapRef.current[house.id] = marker`
Put(table, key, marker) ==
    [k \in (DOMAIN table) \cup {key} |-> IF k = key THEN marker ELSE table[k]]

\* `if (addHouseInfoWindowRef.current) { ...close(); ...current = null; }`
CloseAddPrompt(m) ==
    [m EXCEPT !.prompts = { q \in m.prompts : q.id # m.addHouseInfoWindowRef },
              !.addHouseInfoWindowRef = NoPrompt]

\* `if (infoWindowRef.current) infoWindowRef.current.close();`
CloseInfoWindow(m) == [m EXCEPT !.infoWindow.open = FALSE]

(***************************************************************************)
(* initMap, after loader.load(): a new map, a new InfoWindow, a marker for  *)
(* every house of the render that started the call, the click listener,    *)
(* setMap.                                                                 *)
(***************************************************************************)
RECURSIVE InitMarkers(_, _, _, _)
InitMarkers(m, hs, onMap, cmap) ==
    IF hs = <<>> THEN m
    ELSE LET marker == createEmojiMarker(onMap, Head(hs), cmap)
             m1 == [m EXCEPT
                      !.markersRef = Append(m.markersRef, marker),
                      !.markersMapRef = Put(m.markersMapRef, Head(hs).id, marker),
                      !.placed = IF marker = NullMarker THEN m.placed
                                 ELSE m.placed \cup {marker}]
         IN  InitMarkers(m1, Tail(hs), onMap, cmap)

\* The new map replaces the old one in the page, and the popups of the old
\* map leave the page with it; of these only the prompt that
\* addHouseInfoWindowRef points to can still be reached by the code.  The
\* old InfoWindow, its listeners and its upload button are unreachable.
InitMapBody(m, call) ==
    LET new == m.map + 1
        m1  == [m EXCEPT
                  !.initMaps = Tail(m.initMaps),
                  !.infoWindow = NewInfoWindow(new),
                  !.domreadyOnce = <<>>,
                  !.onceClick = {},
                  !.batches = [b \in DOMAIN m.batches |-> [m.batches[b] EXCEPT !.btn = FALSE]],
                  !.prompts = { q \in m.prompts : q.id = m.addHouseInfoWindowRef }]
        m2  == InitMarkers(m1, call.houses, new, call.cmap)
    IN  [m2 EXCEPT !.map = new, !.clickClosure = call.houses]

(***************************************************************************)
(* The popups.  The house InfoWindow is the one instance of                *)
(* infoWindowRef; an "Add House" prompt is an InfoWindow of its own, made  *)
(* by createStyledInfoWindow.  A popup is in the page when it is open on   *)
(* the current map.                                                        *)
(***************************************************************************)
MaxPrompts == 2
MaxGeocodes == 2
MaxFetches == 2
MaxSelects == 1
MaxConfirms == 1

\* One showHouseInfoWindow call at a time: at most one call awaits its
\* photos and at most one domready listener awaits the popup.
OneFetch == 1

WithinOneFetch == Len(photoFetches') <= OneFetch /\ Len(domreadyOnce') <= OneFetch

\* The formatted addresses the geocoder answers with.
GeoAddresses == { <<"a">> }

\* The alerts of geocode callbacks that a behaviour may show.
MaxGeoAlerts == 1

Remove(seq, i) == SubSeq(seq, 1, i - 1) \o SubSeq(seq, i + 1, Len(seq))

\* createStyledInfoWindow(map, latLng, callback, address): a new prompt, open
\* on `onMap`.  The helper of utils returns the InfoWindow; the helper
\* appended to Map.js returns nothing.
createStyledInfoWindow(m, onMap, address, kind, closure) ==
    LET free == (1..MaxPrompts) \ { q.id : q \in m.prompts }
        id   == CHOOSE i \in free : \A j \in free : i <= j
    IN  IF free = {} THEN [m EXCEPT !.overflow = TRUE]
        ELSE [m EXCEPT
                !.prompts = @ \cup {[id |-> id, onMap |-> onMap, address |-> address,
                                     kind |-> kind, closeclick |-> FALSE,
                                     closure |-> closure]},
                !.ret = IF mapUtils = "part_004" THEN id ELSE NoPrompt]

\* showHouseInfoWindow(marker, house) up to `await fetchHousePhotos(house.id)`;
\* cmap is the `map` of the render that created the function.  (The history
\* field `last` is the marker of the latest call made since.)
showHouseInfoWindow(m, marker, cmap) ==
    LET m1 == CloseInfoWindow(CloseAddPrompt(m))
    IN  IF Len(m1.photoFetches) >= MaxFetches THEN [m1 EXCEPT !.overflow = TRUE]
        ELSE [m1 EXCEPT !.photoFetches =
                 Append([j \in 1..Len(@) |-> [@[j] EXCEPT !.last = marker]],
                        [marker |-> marker, cmap |-> cmap, last |-> marker])]

\* openInfoWindow(infoWindowRef.current, map, marker, content): setContent
\* replaces the DOM of the popup (and with it the upload button and its
\* listeners); open(map, marker) renders the popup on the map of the anchor
\* when the anchor is on a map, else on the map given.
openInfoWindow(m, cmap, marker, fetched) ==
    LET on == IF marker \in m.placed THEN marker.onMap ELSE cmap
    IN  [m EXCEPT
           !.infoWindow = [inst |-> m.infoWindow.inst, open |-> on # NoMap, onMap |-> on,
                           house |-> marker.house, photos |-> fetched,
                           domPending |-> on # NoMap, listeners |-> <<>>,
                           disabled |-> FALSE],
           !.batches = [b \in DOMAIN m.batches |-> [m.batches[b] EXCEPT !.btn = FALSE]]]

(***************************************************************************)
(* The effects.                                                            *)
(***************************************************************************)
\* useEffect [houses]: initMap() runs to `await loader.load()`.
EffectInitMap(m) ==
    [m EXCEPT !.initMaps = Append(m.initMaps, [houses |-> houses, cmap |-> m.map])]

\* useEffect [selectedHouse, houses, map]: closes the popups;
\* `houses.find((h) => h.id === selectedHouse)` compares an id with a house
\* object and finds nothing.
EffectSelected(m) ==
    IF m.map # NoMap /\ selectedHouse # NoHouse
      THEN CloseInfoWindow(CloseAddPrompt(m))
      ELSE m

\* useEffect [houses, map]: the marker re-render.
RECURSIVE RenderMarkers(_, _)
RenderMarkers(m, hs) ==
    IF hs = <<>> THEN m
    ELSE IF ~HasValidLocation(Head(hs)) THEN RenderMarkers(m, Tail(hs))
    ELSE LET marker == createEmojiMarker(m.map, Head(hs), m.map)
             m1 == IF marker = NullMarker THEN m
                   ELSE [m EXCEPT
                           !.markersRef = Append(m.markersRef, marker),
                           !.markersMapRef = Put(m.markersMapRef, Head(hs).id, marker),
                           !.placed = m.placed \cup {marker}]
         IN  RenderMarkers(m1, Tail(hs))

\* `markersRef.current.forEach(marker => marker.setMap(null))`: the markers
\* before the first null entry leave the map; a null entry throws.
RECURSIVE FirstNull(_)
FirstNull(ms) ==
    IF ms = <<>> THEN 1
    ELSE IF Head(ms) = NullMarker THEN 1 ELSE 1 + FirstNull(Tail(ms))

ClearMarkers(m) ==
    LET n == FirstNull(m.markersRef)
        removed == { m.markersRef[i] : i \in 1..(n - 1) }
    IN  IF n <= Len(m.markersRef)
          THEN [m EXCEPT !.placed = m.placed \ removed, !.crashed = TRUE]
          ELSE [m EXCEPT !.placed = m.placed \ removed,
                         !.markersRef = <<>>,
                         !.markersMapRef = << >>]

EffectMarkers(m) ==
    IF m.map = NoMap THEN m
    ELSE LET m1 == ClearMarkers(m)
         IN  IF m1.crashed THEN m1 ELSE RenderMarkers(m1, houses)

\* useEffect [selectedHouse, map]: a persisted house gets its InfoWindow, a
\* house that is not persisted (id null) gets an "Add House" prompt, which
\* no reference keeps.
EffectSelection(m) ==
    IF selectedHouse = NoHouse \/ m.map = NoMap THEN m
    ELSE IF selectedHouse.id # NullId
      THEN IF /\ selectedHouse.id \in DOMAIN m.markersMapRef
              /\ m.markersMapRef[selectedHouse.id] # NullMarker
             THEN showHouseInfoWindow(m, m.markersMapRef[selectedHouse.id], m.map)
             ELSE m
      ELSE createStyledInfoWindow(m, m.map, selectedHouse.address, "draft", houses)

\* The dependencies of the current render.
CurrentDeps == [houses |-> housesGen, selected |-> selectedGen, map |-> map]

\* The effects whose dependencies changed run in the order of their
\* declaration; an effect that throws unmounts the tree.
RunEffects ==
    LET hCh == deps.houses # housesGen
        sCh == deps.selected # selectedGen
        mCh == deps.map # map
        m0  == MapState
        m1  == IF hCh THEN EffectInitMap(m0) ELSE m0
        m2  == EffectSelected(m1)
        m3  == IF hCh \/ mCh THEN EffectMarkers(m2) ELSE m2
        m4  == IF (sCh \/ mCh) /\ ~m3.crashed THEN EffectSelection(m3) ELSE m3
    IN  /\ ~crashed
        /\ deps # CurrentDeps
        /\ deps' = CurrentDeps
        /\ Commit(m4)
        /\ UNCHANGED <<mapUtils, sidebarGeocodes>>
        /\ UNCHANGED <<resizeVars, regVars, upVars, adminVars, normVars, alertVars, zoomVars>>

\* loader.load() of the oldest pending initMap call resolves.
InitMapResolve ==
    /\ ~crashed
    /\ initMaps # <<>>
    /\ Commit(InitMapBody(MapState, Head(initMaps)))
    /\ UNCHANGED <<mapUtils, deps, sidebarGeocodes>>
    /\ UNCHANGED <<resizeVars, regVars, upVars, adminVars, normVars, alertVars, zoomVars>>

\* No initMap call is pending and the effects have seen the current state.
Settled == initMaps = <<>> /\ deps = CurrentDeps

\* The ids of the houses of the list that have valid coordinates.
ValidIds == { houses[i].id : i \in { j \in 1..Len(houses) : HasValidLocation(houses[j]) } }

(***************************************************************************)
(* C5: once the effects of a house-list change and the map                 *)
(* re-initialisation it starts have run, the keys of the id-to-marker      *)
(* table are exactly the ids of the houses with valid coordinates, and     *)
(* every marker on the map is in the table.                                *)
(***************************************************************************)
C5_MarkerKeys ==
    Settled =>
        /\ DOMAIN markersMapRef = ValidIds
        /\ \A mk \in placed :
              mk.onMap = map => \E k \in DOMAIN markersMapRef : markersMapRef[k] = mk

(***************************************************************************)
(* Events on the map and the popups.  The user acts on the page as         *)
(* rendered: after the pending effects have run, and not while a file      *)
(* chooser is open.                                                        *)
(***************************************************************************)
Interactive ==
    /\ ~crashed
    /\ map # NoMap
    /\ deps = CurrentDeps
    /\ \A b \in BatchIds : batches[b].pc # "dialog"

MapOnly ==
    UNCHANGED <<mapUtils, deps, sidebarGeocodes, resizeVars, regVars, upVars, adminVars, normVars, alertVars, zoomVars>>

\* The prompts in the page.
VisiblePrompts == { q \in prompts : q.onMap = map }

\* The house InfoWindow is in the page.
InfoVisible == infoWindow.open /\ infoWindow.onMap = map

\* A click on the map: the listener of initMap, then the once-only
\* listeners that showHouseInfoWindow added to this map.
MapClickListener(m) ==
    IF m.addHouseInfoWindowRef # NoPrompt
      THEN CloseAddPrompt(m)
      ELSE IF Len(m.geocodes) >= MaxGeocodes THEN [m EXCEPT !.overflow = TRUE]
      ELSE [CloseInfoWindow(m) EXCEPT
              !.geocodes = Append(@, [onMap |-> m.map, closure |-> m.clickClosure])]

OnceClickListeners(m) ==
    IF m.map \in m.onceClick
      THEN [CloseInfoWindow(m) EXCEPT !.onceClick = @ \ {m.map}]
      ELSE m

MapClick ==
    /\ Interactive
    /\ Commit(OnceClickListeners(MapClickListener(MapState)))
    /\ MapOnly

\* The geocoder answers OK: the prompt is created and kept in
\* addHouseInfoWindowRef, whatever the reference held; its closeclick
\* listener is registered when createStyledInfoWindow returned the prompt.
GeocodeOk(m, g, address) ==
    LET m1 == createStyledInfoWindow(m, g.onMap, address, "click", g.closure)
        m2 == [m1 EXCEPT !.addHouseInfoWindowRef = m1.ret]
    IN  IF m1.overflow \/ m1.ret = NoPrompt THEN m2
        ELSE [m2 EXCEPT !.prompts = { IF q.id = m1.ret
                                         THEN [q EXCEPT !.closeclick = TRUE]
                                         ELSE q : q \in m2.prompts }]

GeocodeResolve(i, address) ==
    /\ ~crashed
    /\ i \in 1..Len(geocodes)
    /\ Commit(GeocodeOk([MapState EXCEPT !.geocodes = Remove(@, i)], geocodes[i], address))
    /\ MapOnly

\* `results[0]?.formatted_address || "Address Not Found"`: the address of the
\* prompt when the geocoder answers OK without a formatted address.
AddressNotFound ==
    <<"A", "d", "d", "r", "e", "s", "s", " ", "N", "o", "t", " ", "F", "o", "u", "n", "d">>

\* The geocoder answers OK and its first result has no formatted address,
\* or it has no result: the prompt is created with the placeholder.
GeocodeNoResult(i) ==
    /\ ~crashed
    /\ i \in 1..Len(geocodes)
    /\ Commit(GeocodeOk([MapState EXCEPT !.geocodes = Remove(@, i)], geocodes[i],
                        AddressNotFound))
    /\ MapOnly

\* `alert("Unable to determine the address for this location.")`
UnableToDetermine == "Unable to determine the address for this location."

\* `alert("Geocode was not successful for the following reason: " + status)`
NotSuccessful == "Geocode was not successful for the following reason: "

\* There is room for one more alert of a geocode callback.
GeoAlertRoom == Len(geoAlerts) < MaxGeoAlerts

\* The geocoder answers with another status: an alert.
GeocodeFails(i) ==
    /\ ~crashed
    /\ i \in 1..Len(geocodes)
    /\ GeoAlertRoom
    /\ Commit([MapState EXCEPT !.geocodes = Remove(@, i)])
    /\ geoAlerts' = Append(geoAlerts, UnableToDetermine)
    /\ UNCHANGED <<mapUtils, deps, sidebarGeocodes, resizeVars, regVars, upVars,
                   adminVars, normVars, zoomVars>>

\* A click on a marker of the map: showHouseInfoWindow of the render that
\* made the marker.
MarkerClick(mk) ==
    /\ Interactive
    /\ mk \in placed /\ mk.onMap = map
    /\ Commit(showHouseInfoWindow(MapState, mk, mk.cmap))
    /\ MapOnly

\* What fetchHousePhotos(house.id) answers: the download URLs of the photo
\* documents of the house (helper of Map.js; every document has one) or of
\* the objects stored for the house (helper of utils).  A URL is named by
\* the file name of its object, and in the first case by the document.
HousePhotosReviewed(h) ==
    IF mapUtils = "Map.js"
      THEN { [name |-> d.fileName, doc |-> d.id] : d \in { e \in dbPhotos : e.house = h /\ e.reviewed } }
      ELSE { [name |-> o.name, doc |-> 0] : o \in { x \in storage : x.house = h } }
HousePhotos(h) ==
    IF mapUtils = "Map.js"
      THEN { [name |-> d.fileName, doc |-> d.id] : d \in { e \in dbPhotos : e.house = h } }
      ELSE { [name |-> o.name, doc |-> 0] : o \in { x \in storage : x.house = h } }

\* showHouseInfoWindow after `await fetchHousePhotos`: the InfoWindow of
\* infoWindowRef.current is filled and opened; `map.panTo` throws when the
\* function closed over a null map, and the listeners are not added.  (A
\* once-only click listener on a map that has left the page never runs and
\* is not recorded.)
ShowAfterFetch(m, f, fetched) ==
    LET m1 == openInfoWindow(m, f.cmap, f.marker, fetched)
    IN  IF f.cmap = NoMap THEN m1
        ELSE IF Len(m1.domreadyOnce) >= MaxFetches THEN [m1 EXCEPT !.overflow = TRUE]
        ELSE [m1 EXCEPT !.onceClick = IF f.cmap = m.map THEN @ \cup {f.cmap} ELSE @,
                        !.domreadyOnce = Append(@, f)]

\* fetchHousePhotos resolves, with the photos or (on an error) with [].
PhotoFetchResolve(i, ok) ==
    /\ ~crashed
    /\ i \in 1..Len(photoFetches)
    /\ Commit(ShowAfterFetch([MapState EXCEPT !.photoFetches = Remove(@, i)],
                              photoFetches[i],
                              IF ok THEN HousePhotos(photoFetches[i].marker.house) ELSE {}))
    /\ MapOnly

\* domready of the house InfoWindow: every once-only listener runs; the one
\* whose house owns the button in the page adds a click listener to it.
RECURSIVE Wire(_, _)
Wire(fs, h) ==
    IF fs = <<>> THEN <<>>
    ELSE IF Head(fs).marker.house = h THEN <<Head(fs)>> \o Wire(Tail(fs), h)
    ELSE Wire(Tail(fs), h)

DomReady ==
    /\ ~crashed
    /\ InfoVisible
    /\ infoWindow.domPending
    /\ Commit([MapState EXCEPT
                 !.infoWindow.domPending = FALSE,
                 !.infoWindow.listeners = @ \o Wire(domreadyOnce, infoWindow.house),
                 !.domreadyOnce = <<>>])
    /\ MapOnly

\* The close button of the house InfoWindow.
InfoCloseClick ==
    /\ Interactive
    /\ InfoVisible
    /\ Commit(CloseInfoWindow(MapState))
    /\ MapOnly

\* The close button of a prompt; its closeclick listener clears
\* addHouseInfoWindowRef.
PromptCloseClick(q) ==
    /\ Interactive
    /\ q \in VisiblePrompts
    /\ Commit([MapState EXCEPT
                 !.prompts = @ \ {q},
                 !.addHouseInfoWindowRef = IF q.closeclick THEN NoPrompt ELSE @])
    /\ MapOnly

\* The "Yes, Add House" button of a prompt: the callback (handleUserSelection
\* for a prompt of a map click, addMarker alone for the prompt of a
\* selection), then the prompt closes itself.  The helper of Map.js finds
\* its button by an id that every prompt uses; the button is taken to be the
\* prompt's own when the prompt is alone in the page.
PromptConfirm(q, c) ==
    LET m1 == IF q.kind = "click" THEN CloseAddPrompt(MapState) ELSE MapState
    IN  /\ Interactive
        /\ q \in VisiblePrompts
        /\ mapUtils = "Map.js" => VisiblePrompts = {q}
        /\ AddMarkerStart(c, q.address, LatLng, q.closure)
        /\ Commit([m1 EXCEPT !.prompts = @ \ {q}])
        /\ UNCHANGED <<mapUtils, deps, sidebarGeocodes, resizeVars, upVars, adminVars, normVars, alertVars, zoomVars>>

(***************************************************************************)
(* Photo upload: the click listener of the upload button, fileInput's      *)
(* onchange, the per-file tasks and the `finally` block.  A task is at     *)
(* the await it waits on: "resize", "upload", "url", "addDoc"; or it has   *)
(* ended: "ok", "failed".                                                  *)
(***************************************************************************)
MaxFiles == 2

\* The ids of the photo documents that the store holds at the start.
MaxStoredId == 2

\* The step of a task whose success appends the photo document.
WritesRecordEarly(pc) == pc = "upload"
WritesRecord(pc) == pc = "addDoc"

\* The photo document that addDoc writes for file i of batch b, with its
\* generated id.  The document has no `reviewed` field, which reads as false.
NewPhotoReviewed(b, i) ==
    [house |-> batches[b].house, id |-> MaxStoredId + (b - 1) * MaxFiles + i,
     fileName |-> i, batch |-> b, reviewed |-> TRUE]
NewPhoto(b, i) ==
    [house |-> batches[b].house, id |-> MaxStoredId + (b - 1) * MaxFiles + i,
     fileName |-> i, batch |-> b, reviewed |-> FALSE]

\* The step of a task whose success stores the object.
WritesObjectLate(pc) == pc = "addDoc"
WritesObject(pc) == pc = "upload"

NextPc(pc) ==
    CASE pc = "resize" -> "upload"
      [] pc = "upload" -> "url"
      [] pc = "url"    -> "addDoc"
      [] pc = "addDoc" -> "ok"

Pending(pc) == pc \in {"resize", "upload", "url", "addDoc"}

\* The click listeners of the upload button run in turn: each disables the
\* button and opens a file chooser.  (slots: the batch records to use.)
RECURSIVE ClickListeners(_, _, _)
ClickListeners(m, ls, slots) ==
    LET free == { b \in slots : m.batches[b].pc = "free" }
        b    == CHOOSE x \in free : \A y \in free : x <= y
        l    == Head(ls)
    IN  IF ls = <<>> THEN m
        ELSE IF free = {} THEN [m EXCEPT !.overflow = TRUE]
        ELSE ClickListeners(
               [m EXCEPT !.infoWindow.disabled = TRUE,
                         !.batches[b] = [pc |-> "dialog", house |-> l.marker.house,
                                         marker |-> l.marker, cmap |-> l.cmap,
                                         btn |-> TRUE, tasks |-> <<>>, alert |-> None]],
               Tail(ls), slots)

UploadClick(slots) ==
    /\ Interactive
    /\ InfoVisible
    /\ infoWindow.listeners # <<>>
    /\ ~infoWindow.disabled
    /\ Commit(ClickListeners(MapState, infoWindow.listeners, slots))
    /\ MapOnly

\* No batch is under way: none has its file chooser open, a task that has
\* not ended or its last refresh pending.
Idle ==
    \A b \in BatchIds :
        /\ batches[b].pc \in {"free", "done", "cancelled"}
        /\ \A i \in DOMAIN batches[b].tasks : batches[b].tasks[i] \in {"ok", "failed"}

\* `uploadPhotosBtn.disabled = false` acts on the button of the listener,
\* which may have left the page.
EnableButton(m, b) ==
    IF m.batches[b].btn THEN [m EXCEPT !.infoWindow.disabled = FALSE] ELSE m

\* onchange with n files: with none, an alert; else the loading indicator
\* and one task per file, each at `await resizeImage(file)`.
FilesChosen(b, n) ==
    /\ batches[b].pc = "dialog"
    /\ Commit(IF n = 0
                THEN [EnableButton(MapState, b) EXCEPT
                        !.batches[b].pc = "done", !.batches[b].alert = "nofiles"]
                ELSE [MapState EXCEPT
                        !.indicators = @ + 1,
                        !.batches[b].pc = "running",
                        !.batches[b].tasks = [i \in 1..n |-> "resize"]])
    /\ MapOnly

\* The file chooser is dismissed: onchange never runs.
DialogCancel(b) ==
    /\ batches[b].pc = "dialog"
    /\ Commit([MapState EXCEPT !.batches[b].pc = "cancelled"])
    /\ MapOnly

\* `await Promise.all(uploadPromises)` settles: the alert, then `finally`
\* up to `await fetchHousePhotos(house.id)`.
Settle(m, b, alert) ==
    [EnableButton(m, b) EXCEPT
       !.indicators = @ - 1,
       !.batches[b].pc = "refetch",
       !.batches[b].alert = alert]

\* The await of task i of batch b resolves.  Promise.all resolves when the
\* last task has ended well.
TaskStep(b, i) ==
    LET pc == batches[b].tasks[i]
        m1 == [MapState EXCEPT !.batches[b].tasks[i] = NextPc(pc)]
        done == \A j \in DOMAIN m1.batches[b].tasks : m1.batches[b].tasks[j] = "ok"
    IN  /\ i \in DOMAIN batches[b].tasks
        /\ Pending(pc)
        /\ Commit(IF done /\ batches[b].pc = "running" THEN Settle(m1, b, "success") ELSE m1)
        /\ dbPhotos' = IF WritesRecord(pc)
                         THEN dbPhotos \cup {NewPhoto(b, i)}
                         ELSE dbPhotos
        /\ storage' = IF WritesObject(pc)
                        THEN storage \cup {[house |-> batches[b].house, name |-> i]}
                        ELSE storage
        /\ UNCHANGED <<mapUtils, deps, sidebarGeocodes, resizeVars, regVars, adminVars, normVars, alertVars, zoomVars>>

\* The await of task i of batch b rejects (resizeImage throws, the upload,
\* getDownloadURL or addDoc fails).  Promise.all rejects with the first
\* rejection; the other tasks go on.
TaskFail(b, i) ==
    LET m1 == [MapState EXCEPT !.batches[b].tasks[i] = "failed"]
    IN  /\ i \in DOMAIN batches[b].tasks
        /\ Pending(batches[b].tasks[i])
        /\ Commit(IF batches[b].pc = "running" THEN Settle(m1, b, "error") ELSE m1)
        /\ MapOnly

\* `finally` after `await fetchHousePhotos`:
\* openInfoWindow(infoWindowRef.current, map, marker, updatedContent).
RefetchResolve(b, ok) ==
    /\ ~crashed
    /\ batches[b].pc = "refetch"
    /\ Commit([openInfoWindow(MapState, batches[b].cmap, batches[b].marker,
                               IF ok THEN HousePhotos(batches[b].house) ELSE {})
                 EXCEPT !.batches[b].pc = "done"])
    /\ MapOnly

\* Every task of batch b has ended.
AllSettled(b) ==
    /\ batches[b].tasks # <<>>
    /\ \A i \in DOMAIN batches[b].tasks : batches[b].tasks[i] \in {"ok", "failed"}

\* The files of batch b whose task ended well.
Succeeded(b) == { i \in DOMAIN batches[b].tasks : batches[b].tasks[i] = "ok" }

\* The photo log of house h.
PhotoLog(h) == { d \in dbPhotos : d.house = h }

(***************************************************************************)
(* C6: once every task of an upload batch has ended, the photo log of the   *)
(* house (empty before) holds exactly one record per file of the batch     *)
(* that succeeded, and none for a file that failed, whatever the order in  *)
(* which the tasks ended.                                                  *)
(***************************************************************************)
C6_OneRecordPerSuccess ==
    \A b \in BatchIds :
        AllSettled(b) =>
            LET mine == { d \in PhotoLog(batches[b].house) : d.batch = b }
            IN  /\ { d.fileName : d \in mine } = Succeeded(b)
                /\ Cardinality(mine) = Cardinality(Succeeded(b))
                /\ \A d \in dbPhotos : d.batch = b => d \in mine

\* A batch of two files has ended with one success and one failure, the
\* failure first: the log of the house holds the one record.
C6_Witness ==
    /\ batches[1].tasks = <<"failed", "ok">>
    /\ batches[1].alert = "error"
    /\ Cardinality(PhotoLog(batches[1].house)) = 1

(***************************************************************************)
(* C7: the notification of a batch of which some but not all files         *)
(* succeeded differs from the notification of a batch of which no file     *)
(* succeeded (and both differ from that of a batch whose files all         *)
(* succeeded).                                                             *)
(***************************************************************************)
Outcome(b) ==
    IF Succeeded(b) = DOMAIN batches[b].tasks THEN "all"
    ELSE IF Succeeded(b) = {} THEN "none" ELSE "partial"

C7_DistinctNotifications ==
    \A b1, b2 \in BatchIds :
        AllSettled(b1) /\ AllSettled(b2) /\ Outcome(b1) # Outcome(b2)
            => batches[b1].alert # batches[b2].alert

(***************************************************************************)
(* C8: when the refresh that ends an upload batch for house H finds the    *)
(* popup closed, or showing another house, on the map the batch began on,  *)
(* it leaves the popup as it is: it does not open it and does not put the  *)
(* gallery of H in it.                                                     *)
(***************************************************************************)
C8_NoReopen ==
    [][ \A b \in BatchIds :
          ( /\ batches[b].pc = "refetch"
            /\ batches'[b].pc = "done"
            /\ batches[b].cmap = map
            /\ ~(infoWindow.open /\ infoWindow.house = batches[b].house) )
          => /\ infoWindow'.open = infoWindow.open
             /\ infoWindow'.house = infoWindow.house ]_vars

(***************************************************************************)
(* smoothZoom and the zoom level of the map widget.  The zoom level is    *)
(* read and written by smoothZoom, by its timers, by the direct           *)
(* map.setZoom(17) calls and by the zoom controls; nothing else of the     *)
(* component depends on it.                                                *)
(***************************************************************************)
\* `zoom: 12` of the map options.
InitialZoom == 12

\* The zoom levels of the widget: setZoom clamps to them.
MinZoom == 0
MaxZoom == 22

\* The smoothZoom calls and the other zoom changes of a behaviour.
MaxAnims == 3
MaxSetZooms == 2

TimerIds == 1..MaxAnims

\* `smoothZoom(mapInstance, 17)` of the map click listener, `smoothZoom(map, 15)`
\* of the selection effect and of showHouseInfoWindow.
ZoomTargets == {15, 17}

\* A timer record; startedWith are the timers that ran when it started.
NoTimer ==
    [state |-> "free", targetZoom |-> 0, zoomStep |-> 0, currentZoom |-> 0,
     startedWith |-> {}]

NoTimers == [t \in TimerIds |-> NoTimer]

\* map.setZoom(z)
SetZoom(z) == IF z < MinZoom THEN MinZoom ELSE IF z > MaxZoom THEN MaxZoom ELSE z

\* `const zoomStep = currentZoom < targetZoom ? step : -step;` with step = 1
ZoomStep(currentZoom, targetZoom) == IF currentZoom < targetZoom THEN 1 ELSE -1

\* `(zoomStep > 0 && newZoom >= targetZoom) || (zoomStep < 0 && newZoom <= targetZoom)`
ReachedGoingUp(zoomStep, newZoom, targetZoom) == zoomStep > 0 /\ newZoom >= targetZoom
Reached(zoomStep, newZoom, targetZoom) ==
    \/ zoomStep > 0 /\ newZoom >= targetZoom
    \/ zoomStep < 0 /\ newZoom <= targetZoom

Running == { t \in TimerIds : zoomTimers[t].state = "running" }

ZoomOnly ==
    UNCHANGED <<resizeVars, regVars, mapVars, upVars, adminVars, normVars, alertVars>>

\* smoothZoom(map, targetZoom): returns at once when the map is at the
\* target, else starts a timer.
smoothZoom(targetZoom) ==
    /\ IF zoom = targetZoom THEN UNCHANGED zoomTimers
       ELSE \E t \in TimerIds :
              /\ zoomTimers[t].state = "free"
              /\ \A u \in TimerIds : u < t => zoomTimers[u].state # "free"
              /\ zoomTimers' = [zoomTimers EXCEPT ![t] =
                     [state |-> "running", targetZoom |-> targetZoom,
                      zoomStep |-> ZoomStep(zoom, targetZoom), currentZoom |-> zoom,
                      startedWith |-> Running]]
    /\ UNCHANGED <<zoom, setZooms>>
    /\ ZoomOnly

\* One run of the setInterval callback of timer t.
ZoomTick(t) ==
    LET tm == zoomTimers[t]
        newZoom == zoom + tm.zoomStep
    IN  /\ tm.state = "running"
        /\ IF Reached(tm.zoomStep, newZoom, tm.targetZoom)
             THEN /\ zoom' = SetZoom(tm.targetZoom)
                  /\ zoomTimers' = [zoomTimers EXCEPT ![t].state = "cleared"]
             ELSE /\ zoom' = SetZoom(newZoom)
                  /\ UNCHANGED zoomTimers
        /\ UNCHANGED setZooms
        /\ ZoomOnly

\* `map.setZoom(17)` of focusOnHouse and of the selection effect.
DirectSetZoom ==
    /\ setZooms < MaxSetZooms
    /\ zoom' = SetZoom(17)
    /\ setZooms' = setZooms + 1
    /\ UNCHANGED zoomTimers
    /\ ZoomOnly

\* The user zooms in or out by one level with the zoom control.
UserZoom(d) ==
    /\ setZooms < MaxSetZooms
    /\ zoom' = SetZoom(zoom + d)
    /\ setZooms' = setZooms + 1
    /\ UNCHANGED zoomTimers
    /\ ZoomOnly

ZoomNext ==
    \/ \E targetZoom \in ZoomTargets : smoothZoom(targetZoom)
    \/ \E t \in TimerIds : ZoomTick(t)
    \/ DirectSetZoom
    \/ \E d \in {-1, 1} : UserZoom(d)

\* setInterval runs the callback of every timer that is not cleared.
ZoomFairness == \A t \in TimerIds : WF_vars(ZoomTick(t))

(***************************************************************************)
(* The Sidebar: handleAddressSubmit and the callback of its geocode        *)
(* request.                                                                *)
(***************************************************************************)
\* `houses.find((h) => h.normalizedAddress === normalizedAddress)`
RECURSIVE Find(_, _)
Find(hs, n) ==
    IF hs = <<>> THEN NoHouse
    ELSE IF Head(hs).normalizedAddress = n THEN Head(hs) ELSE Find(Tail(hs), n)

\* setSelectedHouse(house) re-renders unless the state already holds house.
handleSelectHouse(house) ==
    /\ selectedHouse' = house
    /\ selectedGen' = IF house = selectedHouse THEN selectedGen ELSE selectedGen + 1

handleAddressSubmit(address) ==
    LET existingHouse == Find(houses, normalizeAddress(address))
    IN  /\ ~crashed
        /\ deps = CurrentDeps
        /\ Trim(address) # <<>>
        /\ selectedGen + sidebarGeocodes < MaxSelects
        /\ IF existingHouse # NoHouse
             THEN handleSelectHouse(existingHouse) /\ UNCHANGED sidebarGeocodes
             ELSE sidebarGeocodes' = sidebarGeocodes + 1
                  /\ UNCHANGED <<selectedHouse, selectedGen>>
        /\ UNCHANGED <<dbHouses, houses, housesGen, fetchPc, calls>>
        /\ UNCHANGED <<mapUtils, map, deps, initMaps, infoWindow, addHouseInfoWindowRef,
                       markersRef, markersMapRef, placed, prompts, geocodes, photoFetches,
                       onceClick, domreadyOnce, clickClosure, crashed, batches, indicators>>
        /\ UNCHANGED <<resizeVars, upVars, adminVars, normVars, alertVars, zoomVars>>

\* The geocoder answers OK: a house that is not persisted is selected.
SidebarGeocodeResolve(address) ==
    /\ ~crashed
    /\ sidebarGeocodes > 0
    /\ sidebarGeocodes' = sidebarGeocodes - 1
    /\ selectedHouse' = [id |-> NullId, address |-> address,
                          normalizedAddress |-> normalizeAddress(address),
                          location |-> LatLng, hasLights |-> FALSE]
    /\ selectedGen' = selectedGen + 1
    /\ UNCHANGED <<dbHouses, houses, housesGen, fetchPc, calls>>
    /\ UNCHANGED <<mapUtils, map, deps, initMaps, infoWindow, addHouseInfoWindowRef,
                   markersRef, markersMapRef, placed, prompts, geocodes, photoFetches,
                   onceClick, domreadyOnce, clickClosure, crashed, batches, indicators>>
    /\ UNCHANGED <<resizeVars, upVars, adminVars, normVars, alertVars, zoomVars>>

\* The geocoder answers with another status, or OK without a result: an
\* alert, and no house is selected.
SidebarGeocodeFails ==
    /\ ~crashed
    /\ sidebarGeocodes > 0
    /\ GeoAlertRoom
    /\ sidebarGeocodes' = sidebarGeocodes - 1
    /\ geoAlerts' = Append(geoAlerts, NotSuccessful)
    /\ UNCHANGED regVars
    /\ UNCHANGED <<mapUtils, map, deps, initMaps, infoWindow, addHouseInfoWindowRef,
                   markersRef, markersMapRef, placed, prompts, geocodes, photoFetches,
                   onceClick, domreadyOnce, clickClosure, crashed, batches, indicators>>
    /\ UNCHANGED <<resizeVars, upVars, adminVars, normVars, zoomVars>>

(***************************************************************************)
(* C1: at most one popup is open in the page at any time, counting the     *)
(* "Add House" prompts and the house InfoWindow.                           *)
(***************************************************************************)
C1_AtMostOnePopup ==
    Cardinality(VisiblePrompts) + (IF InfoVisible THEN 1 ELSE 0) <= 1

(***************************************************************************)
(* The Admin page.  The auth provider runs the onAuthStateChanged callback *)
(* once after the subscription and once after every sign-in and sign-out.  *)
(* A fetchPhotos call is at the read it awaits: "houses", then "photos"    *)
(* for the first house of `todo`; its `reads` are the reads it has issued  *)
(* (0 for the houses collection, else the id of the house).                *)
(***************************************************************************)
MaxAdminFetches == 2
MaxLogins == 2
MaxApproves == 2
MaxAdminAlerts == 3

FetchIds == 1..MaxAdminFetches

FreeFetch == [pc |-> "free", todo |-> <<>>, allPhotos |-> <<>>, reads |-> <<>>]

HousesRead == 0

RegOnly == UNCHANGED <<resizeVars, regVars, mapVars, normVars, alertVars, zoomVars>>

\* The photo documents of house h, in the order of their ids.
RECURSIVE ById(_)
ById(ds) ==
    IF ds = {} THEN <<>>
    ELSE LET d == CHOOSE x \in ds : \A y \in ds : x.id <= y.id
         IN  <<d>> \o ById(ds \ {d})

\* `{ id: photoDoc.id, ...photoDoc.data(), houseId: houseDoc.id }`
AdminPhotoUntagged(d) ==
    [id |-> d.id, houseId |-> NullId, fileName |-> d.fileName, reviewed |-> d.reviewed]
AdminPhoto(d) ==
    [id |-> d.id, houseId |-> d.house, fileName |-> d.fileName, reviewed |-> d.reviewed]

PhotosSnapshot(h) ==
    LET ds == ById({ d \in dbPhotos : d.house = h })
    IN  [i \in 1..Len(ds) |-> AdminPhoto(ds[i])]

\* The ids of the documents of `getDocs(collection(db, "houses"))`.
HouseDocs == [i \in 1..Len(dbHouses) |-> dbHouses[i].id]

\* The dashboard is rendered: `loading` is false and `user` is set.
DashboardUngated == ~loading
Dashboard == ~loading /\ user # None

\* The login form is rendered.
LoginForm == ~loading /\ user = None

\* The provider notifies its observer in a microtask: the callback of a
\* sign-in or sign-out runs before any other event of the page.
NoPendingCallback == authEvents = <<>>

\* The onAuthStateChanged callback runs: setUser, setLoading(false), and
\* with a user fetchPhotos() up to its first await.
AuthCallback ==
    LET cu   == Head(authEvents)
        free == { f \in FetchIds : adminFetches[f].pc = "free" }
        f    == CHOOSE x \in free : \A y \in free : x <= y
    IN  /\ authEvents # <<>>
        /\ cu # None => free # {}
        /\ authEvents' = Tail(authEvents)
        /\ user' = cu
        /\ loading' = FALSE
        /\ adminFetches' = IF cu = None THEN adminFetches
                           ELSE [adminFetches EXCEPT
                                   ![f] = [pc |-> "houses", todo |-> <<>>,
                                           allPhotos |-> <<>>, reads |-> <<HousesRead>>]]
        /\ UNCHANGED <<authUser, photos, logins, logouts, approves, adminAlerts, loginCalls>>
        /\ UNCHANGED upVars
        /\ RegOnly

\* The read of the houses collection resolves: the loop issues the photo
\* read of the first house, or with no house setPhotos([]).
AdminHousesResolve(f) ==
    /\ NoPendingCallback
    /\ adminFetches[f].pc = "houses"
    /\ IF HouseDocs = <<>>
         THEN /\ adminFetches' = [adminFetches EXCEPT ![f].pc = "done"]
              /\ photos' = <<>>
         ELSE /\ adminFetches' = [adminFetches EXCEPT
                                    ![f].pc = "photos",
                                    ![f].todo = HouseDocs,
                                    ![f].reads = Append(@, Head(HouseDocs))]
              /\ UNCHANGED photos
    /\ UNCHANGED <<authUser, authEvents, user, loading, logins, logouts, approves,
                   adminAlerts, loginCalls>>
    /\ UNCHANGED upVars
    /\ RegOnly

\* The photo read of a house resolves: its photos are pushed, and the loop
\* issues the read of the next house, or after the last setPhotos(allPhotos).
AdminPhotosResolve(f) ==
    LET c   == adminFetches[f]
        all == c.allPhotos \o PhotosSnapshot(Head(c.todo))
    IN  /\ NoPendingCallback
        /\ c.pc = "photos"
        /\ IF Tail(c.todo) = <<>>
             THEN /\ adminFetches' = [adminFetches EXCEPT
                                        ![f].pc = "done", ![f].todo = <<>>,
                                        ![f].allPhotos = all]
                  /\ photos' = all
             ELSE /\ adminFetches' = [adminFetches EXCEPT
                                        ![f].todo = Tail(c.todo),
                                        ![f].allPhotos = all,
                                        ![f].reads = Append(@, Head(Tail(c.todo)))]
                  /\ UNCHANGED photos
        /\ UNCHANGED <<authUser, authEvents, user, loading, logins, logouts, approves,
                       adminAlerts, loginCalls>>
        /\ UNCHANGED upVars
        /\ RegOnly

\* A read of fetchPhotos rejects: the catch block alerts.
AdminFetchFails(f) ==
    /\ NoPendingCallback
    /\ adminFetches[f].pc \in {"houses", "photos"}
    /\ adminFetches' = [adminFetches EXCEPT ![f].pc = "failed"]
    /\ adminAlerts' = Append(adminAlerts, "Failed to fetch photos.")
    /\ UNCHANGED <<authUser, authEvents, user, loading, photos, logins, logouts, approves,
                   loginCalls>>
    /\ UNCHANGED upVars
    /\ RegOnly

\* The calls that may still alert leave room in the alert log.
AlertRoom == Len(adminAlerts) + logins + logouts + Len(approves) < MaxAdminAlerts

\* The login form is submitted: handleLogin up to its await.
HandleLogin ==
    /\ NoPendingCallback
    /\ LoginForm
    /\ loginCalls < MaxLogins
    /\ AlertRoom
    /\ logins' = logins + 1
    /\ loginCalls' = loginCalls + 1
    /\ UNCHANGED <<authUser, authEvents, user, loading, photos, adminFetches, logouts,
                   approves, adminAlerts>>
    /\ UNCHANGED upVars
    /\ RegOnly

\* signInWithEmailAndPassword resolves: the provider holds the user, and
\* tells the observer when the user changed.
LoginResolve ==
    /\ NoPendingCallback
    /\ logins > 0
    /\ logins' = logins - 1
    /\ authUser' = "admin"
    /\ authEvents' = IF authUser = None THEN Append(authEvents, "admin") ELSE authEvents
    /\ UNCHANGED <<user, loading, photos, adminFetches, logouts, approves, adminAlerts,
                   loginCalls>>
    /\ UNCHANGED upVars
    /\ RegOnly

\* signInWithEmailAndPassword rejects: the catch block alerts.
LoginFails ==
    /\ NoPendingCallback
    /\ logins > 0
    /\ logins' = logins - 1
    /\ adminAlerts' = Append(adminAlerts, "Failed to log in. Please check your credentials.")
    /\ UNCHANGED <<authUser, authEvents, user, loading, photos, adminFetches, logouts,
                   approves, loginCalls>>
    /\ UNCHANGED upVars
    /\ RegOnly

\* The Logout button: handleLogout up to its await.
HandleLogout ==
    /\ NoPendingCallback
    /\ Dashboard
    /\ logouts = 0
    /\ AlertRoom
    /\ logouts' = logouts + 1
    /\ UNCHANGED <<authUser, authEvents, user, loading, photos, adminFetches, logins,
                   approves, adminAlerts, loginCalls>>
    /\ UNCHANGED upVars
    /\ RegOnly

\* signOut resolves.
LogoutResolve ==
    /\ NoPendingCallback
    /\ logouts > 0
    /\ logouts' = logouts - 1
    /\ authUser' = None
    /\ authEvents' = IF authUser # None THEN Append(authEvents, None) ELSE authEvents
    /\ UNCHANGED <<user, loading, photos, adminFetches, logins, approves, adminAlerts,
                   loginCalls>>
    /\ UNCHANGED upVars
    /\ RegOnly

\* signOut rejects: the catch block alerts.
LogoutFails ==
    /\ NoPendingCallback
    /\ logouts > 0
    /\ logouts' = logouts - 1
    /\ adminAlerts' = Append(adminAlerts, "Failed to log out.")
    /\ UNCHANGED <<authUser, authEvents, user, loading, photos, adminFetches, logins,
                   approves, loginCalls>>
    /\ UNCHANGED upVars
    /\ RegOnly

\* `photos.filter((photo) => !photo.reviewed)`: the photos with an Approve
\* button.
notReviewedPhotos == { i \in 1..Len(photos) : ~photos[i].reviewed }

\* `photos.filter((photo) => photo.reviewed)`: the photos shown as approved.
reviewedPhotos == { i \in 1..Len(photos) : photos[i].reviewed }

\* The Approve button of photo i: handleApprove(photo.houseId, photo.id) up
\* to `await updateDoc`.
HandleApprove(i) ==
    /\ NoPendingCallback
    /\ Dashboard
    /\ i \in notReviewedPhotos
    /\ Len(approves) < MaxApproves
    /\ AlertRoom
    /\ approves' = Append(approves, [houseId |-> photos[i].houseId, photoId |-> photos[i].id])
    /\ UNCHANGED <<authUser, authEvents, user, loading, photos, adminFetches, logins,
                   logouts, adminAlerts, loginCalls>>
    /\ UNCHANGED upVars
    /\ RegOnly

\* `updateDoc(photoRef, { reviewed: true })` on the store.
ApproveInStoreToggle(db, houseId, photoId) ==
    { IF d.house = houseId /\ d.id = photoId THEN [d EXCEPT !.reviewed = ~@] ELSE d :
        d \in db }
ApproveInStore(db, houseId, photoId) ==
    { IF d.house = houseId /\ d.id = photoId THEN [d EXCEPT !.reviewed = TRUE] ELSE d :
        d \in db }

\* The functional update of setPhotos: the photo that matches both ids is
\* replaced by a copy with reviewed true.
ApproveInListByPhotoId(list, houseId, photoId) ==
    [i \in 1..Len(list) |->
        IF list[i].id = photoId
          THEN [list[i] EXCEPT !.reviewed = TRUE]
          ELSE list[i]]
ApproveInList(list, houseId, photoId) ==
    [i \in 1..Len(list) |->
        IF list[i].id = photoId /\ list[i].houseId = houseId
          THEN [list[i] EXCEPT !.reviewed = TRUE]
          ELSE list[i]]

\* updateDoc resolves: the functional update of setPhotos, then the alert.
ApproveResolve(k) ==
    LET a == approves[k]
    IN  /\ NoPendingCallback
        /\ k \in 1..Len(approves)
        /\ \E d \in dbPhotos : d.house = a.houseId /\ d.id = a.photoId
        /\ approves' = Remove(approves, k)
        /\ dbPhotos' = ApproveInStore(dbPhotos, a.houseId, a.photoId)
        /\ photos' = ApproveInList(photos, a.houseId, a.photoId)
        /\ adminAlerts' = Append(adminAlerts, "Photo approved successfully.")
        /\ UNCHANGED <<authUser, authEvents, user, loading, adminFetches, logins, logouts,
                       loginCalls>>
        /\ UNCHANGED storage
        /\ RegOnly

\* updateDoc rejects: the catch block alerts.
ApproveFails(k) ==
    /\ NoPendingCallback
    /\ k \in 1..Len(approves)
    /\ approves' = Remove(approves, k)
    /\ adminAlerts' = Append(adminAlerts, "Failed to approve photo.")
    /\ UNCHANGED <<authUser, authEvents, user, loading, photos, adminFetches, logins,
                   logouts, loginCalls>>
    /\ UNCHANGED upVars
    /\ RegOnly

\* The stored document that a pending approve call addresses.
Target(a) == CHOOSE d \in dbPhotos : d.house = a.houseId /\ d.id = a.photoId

ApprovedAlerts ==
    { i \in 1..Len(adminAlerts) : adminAlerts[i] = "Photo approved successfully." }

\* C11: approving is idempotent: when handleApprove completes for a photo
\* that the store already holds as approved, the store is left as it was
\* (reviewed stays true), the in-memory photo is reviewed, every other
\* in-memory photo is unchanged, and the report is the success message.
C11_ApproveIdempotent ==
    [][\A k \in 1..MaxApproves :
          (ApproveResolve(k) /\ Target(approves[k]).reviewed)
          => /\ dbPhotos' = dbPhotos
             /\ Len(photos') = Len(photos)
             /\ \A i \in 1..Len(photos) :
                   IF photos[i].id = approves[k].photoId
                      /\ photos[i].houseId = approves[k].houseId
                     THEN /\ photos'[i].reviewed
                          /\ [photos'[i] EXCEPT !.reviewed = photos[i].reviewed] = photos[i]
                     ELSE photos'[i] = photos[i]
             /\ adminAlerts' = Append(adminAlerts, "Photo approved successfully.")
             /\ <<authUser, user, loading, storage>>' = <<authUser, user, loading, storage>>]_vars

\* Two approvals have succeeded and only one stored photo became approved
\* by them: the second one was applied to an approved photo.
C11_Witness ==
    /\ Cardinality(ApprovedAlerts) = 2
    /\ Cardinality({ d \in dbPhotos : d.reviewed }) = 2
    /\ \E i \in 1..Len(photos) : photos[i].reviewed /\ photos[i].id # MaxStoredId

\* C12: a successful handleApprove(houseId, photoId) sets reviewed on the
\* in-memory photos that match both ids and leaves every other photo as it
\* was; a failed one leaves the list as it was, raises the failure alert and
\* issues no further update.
C12_ApproveEffects ==
    [][\A k \in 1..MaxApproves :
          /\ ApproveResolve(k)
             => /\ Len(photos') = Len(photos)
                /\ \A i \in 1..Len(photos) :
                      photos'[i] =
                        IF photos[i].id = approves[k].photoId
                           /\ photos[i].houseId = approves[k].houseId
                          THEN [photos[i] EXCEPT !.reviewed = TRUE]
                          ELSE photos[i]
          /\ ApproveFails(k)
             => /\ photos' = photos
                /\ dbPhotos' = dbPhotos
                /\ adminAlerts' = Append(adminAlerts, "Failed to approve photo.")
                /\ Len(approves') = Len(approves) - 1]_vars

\* One approval has succeeded and one has failed, and of two in-memory
\* photos with the same id under two houses only one is approved.
C12_Witness ==
    /\ ApprovedAlerts # {}
    /\ \E i \in 1..Len(adminAlerts) : adminAlerts[i] = "Failed to approve photo."
    /\ \E i, j \in 1..Len(photos) :
          /\ photos[i].id = photos[j].id
          /\ photos[i].houseId # photos[j].houseId
          /\ photos[i].reviewed
          /\ ~photos[j].reviewed

\* The stored photo documents with the key of d.
SameDoc(db, d) == { e \in db : e.house = d.house /\ e.id = d.id }

\* C13: in every step each stored photo document stays in the store with
\* its other fields, a reviewed flag that is true stays true, a flag changes
\* only in a step that completes handleApprove, and a document that enters
\* the store is not reviewed.
C13_ReviewedOneWay ==
    [][/\ \A d \in dbPhotos :
            \E e \in SameDoc(dbPhotos', d) :
              /\ [e EXCEPT !.reviewed = d.reviewed] = d
              /\ d.reviewed => e.reviewed
       /\ (\E d \in dbPhotos : d \notin dbPhotos')
            => \E k \in 1..MaxApproves : ApproveResolve(k)
       /\ \A e \in dbPhotos' : SameDoc(dbPhotos, e) = {} => ~e.reviewed]_vars

\* A photo that an upload stored has been approved, and the page has seen a
\* logout and a login.
C13_Witness ==
    /\ \E d \in dbPhotos : d.batch # 0 /\ d.reviewed
    /\ loginCalls > 0

\* The reads that the fetchPhotos calls have issued so far.
ReadsIssued == [f \in FetchIds |-> Len(adminFetches[f].reads)]

\* C14: a step in which the Admin page issues a read of the document store
\* is taken with an admin session; a fetchPhotos call starts only in the
\* auth-state callback that carries a user, and a failed login starts none.
C14_NoReadWithoutSession ==
    [][/\ ReadsIssued' # ReadsIssued => authUser # None
       /\ \A f \in FetchIds :
            (adminFetches[f].pc = "free" /\ adminFetches'[f].pc # "free")
            => AuthCallback /\ Head(authEvents) # None
       /\ LoginFails => adminFetches' = adminFetches]_vars

\* The fetchPhotos call that was started last.
LastFetch ==
    LET started == { f \in FetchIds : adminFetches[f].pc # "free" }
    IN  IF started = {} THEN FreeFetch
        ELSE adminFetches[CHOOSE f \in started : \A g \in started : g <= f]

\* C15: whenever the dashboard with the two lists is rendered, the
\* fetchPhotos call of the login has completed with one read of the houses
\* collection and one photo read per house.
C15_ListsAfterReads ==
    Dashboard => /\ LastFetch.pc = "done"
                 /\ LastFetch.reads = <<HousesRead>> \o HouseDocs

\* The notifications that the addMarker calls have raised.
RegAlerts == [c \in CallIds |-> calls[c].alert]

\* C16: a step in which a backend operation of the Home page fails (the
\* listing of the houses on load, the existence check, the creation of the
\* house) raises a notification, and the failed listing is not issued again.
C16_FailuresNotified ==
    [][/\ ( \/ FetchHousesFail
            \/ \E c \in CallIds : ExistsQueryFails(c)
            \/ \E c \in CallIds : AddDocFails(c) )
          => RegAlerts' # RegAlerts
       /\ fetchPc = "failed" => fetchPc' = "failed"]_vars

\* C17: a map click while an AddPrompt is in the page only dismisses it:
\* no AddPrompt is left, no geocode request starts and no popup appears; a
\* map click with no AddPrompt in the page closes the house InfoWindow and
\* starts one geocode request, whose OK answer opens exactly one AddPrompt.
C17_MapClickToggles ==
    [][/\ MapClick =>
            IF VisiblePrompts # {}
              THEN /\ VisiblePrompts' = {}
                   /\ geocodes' = geocodes
                   /\ prompts' \subseteq prompts
                   /\ InfoVisible' => InfoVisible
              ELSE /\ ~InfoVisible'
                   /\ Len(geocodes') = Len(geocodes) + 1
       /\ \A i \in 1..MaxGeocodes, address \in GeoAddresses :
            (GeocodeResolve(i, address) /\ geocodes[i].onMap = map /\ VisiblePrompts = {})
            => Cardinality(VisiblePrompts') = 1]_vars

\* The once-only domready listeners that will wire the upload button.
Wiring == { domreadyOnce[i] : i \in 1..Len(domreadyOnce) }

\* C18: a marker click leaves no AddPrompt and no house InfoWindow in the
\* page and starts the photo fetch; when the fetch of a marker of the page
\* resolves, with the photos or after an error with none, the house
\* InfoWindow is in the page for the house of the marker, with the photos
\* fetched and an upload button that will be wired.
C18_MarkerClickShowsHouse ==
    [][/\ \A mk \in placed :
            MarkerClick(mk)
            => /\ VisiblePrompts' = {}
               /\ ~InfoVisible'
               /\ Len(photoFetches') = Len(photoFetches) + 1
       /\ \A i \in 1..MaxFetches, ok \in BOOLEAN :
            ( /\ PhotoFetchResolve(i, ok)
              /\ photoFetches[i].marker \in placed
              /\ photoFetches[i].marker.onMap = map )
            => /\ InfoVisible'
               /\ infoWindow'.house = photoFetches[i].marker.house
               /\ infoWindow'.photos
                    = (IF ok THEN HousePhotos(photoFetches[i].marker.house) ELSE {})
               /\ photoFetches[i] \in Wiring']_vars

\* The effects run for a new selection on a loaded map, and none throws.
SelectionStep ==
    /\ RunEffects
    /\ ~crashed'
    /\ deps.selected # selectedGen
    /\ map # NoMap
    /\ selectedHouse # NoHouse

\* C19: when the effects run for a new selection, the popups that were in
\* the page are closed; for a house with a persisted id and a marker the
\* photo fetch of that house starts and no AddPrompt is in the page; for a
\* draft (id null) one AddPrompt with the draft's address is in the page, no
\* geocode request and no photo fetch starts, and no house InfoWindow shows.
C19_SelectionClosesPopups ==
    [][SelectionStep
       => /\ VisiblePrompts \cap VisiblePrompts' = {}
          /\ ~InfoVisible'
          /\ geocodes' = geocodes
          /\ IF selectedHouse.id # NullId
               THEN /\ VisiblePrompts' = {}
                    /\ (\E mk \in placed' : mk.onMap = map /\ mk.house = selectedHouse.id)
                        => /\ Len(photoFetches') = Len(photoFetches) + 1
                           /\ photoFetches'[Len(photoFetches')].marker.house
                                = selectedHouse.id
               ELSE /\ photoFetches' = photoFetches
                    /\ Cardinality(VisiblePrompts') = 1
                    /\ \A q \in VisiblePrompts' : q.address = selectedHouse.address]_vars

\* C20: the confirm button of an AddPrompt starts exactly one addMarker
\* call, with the address and the location of the prompt, and leaves no
\* popup in the page and addHouseInfoWindowRef without the prompt; the later
\* steps of the call (duplicate, created, failed) open no prompt.
C20_ConfirmLeavesIdle ==
    [][/\ \A q \in prompts, c \in CallIds :
            PromptConfirm(q, c)
            => /\ calls[c].pc = "free" /\ calls'[c].pc # "free"
               /\ calls'[c].address = q.address
               /\ calls'[c].location = LatLng
               /\ \A d \in CallIds \ {c} : calls'[d].pc = calls[d].pc
               /\ VisiblePrompts' = {}
               /\ ~InfoVisible'
               /\ addHouseInfoWindowRef' # q.id
       /\ ( \E c \in CallIds :
               ExistsResolve(c) \/ ExistsQueryFails(c) \/ AddDocResolve(c) \/ AddDocFails(c) )
            => prompts' = prompts /\ addHouseInfoWindowRef' = addHouseInfoWindowRef]_vars

\* The URL of photo document d is in the listing.
Listed(listing, d) == \E x \in listing : x.name = d.fileName

\* C22: a listing that fetchHousePhotos answers for a house and the popup
\* shows holds the URL of every photo document of the house, reviewed or
\* not, and completing an approve call changes the listing of no house.
C22_ListingIgnoresReviewed ==
    [][/\ \A i \in 1..MaxFetches :
            PhotoFetchResolve(i, TRUE)
            => \A d \in dbPhotos :
                  d.house = photoFetches[i].marker.house => Listed(infoWindow'.photos, d)
       /\ \A b \in BatchIds :
            RefetchResolve(b, TRUE)
            => \A d \in dbPhotos :
                  d.house = batches[b].house => Listed(infoWindow'.photos, d)
       /\ (\E k \in 1..MaxApproves : ApproveResolve(k))
            => \A h \in 1..Len(dbHouses) : HousePhotos(h)' = HousePhotos(h)]_vars

\* The popup shows the photo that was uploaded, which is not reviewed, next
\* to a photo that is.
C22_Witness ==
    /\ InfoVisible
    /\ \E d \in dbPhotos : d.batch # 0 /\ ~d.reviewed /\ Listed(infoWindow.photos, d)
    /\ \E d \in dbPhotos : d.batch = 0 /\ d.reviewed /\ Listed(infoWindow.photos, d)

\* The house and photo ids of the photos of a list, and of the store.
ListKeys(list) == { <<list[i].houseId, list[i].id>> : i \in 1..Len(list) }

StoreKeys == { <<d.house, d.id>> : d \in dbPhotos }

\* C23: when a fetchPhotos call completes, the in-memory list holds each
\* stored photo of each house once, under the id of its house; and always
\* the pending and the approved list are disjoint, make up the in-memory
\* list, and a photo that is not reviewed is in the pending list.
C23_ListAndPartition ==
    /\ [](/\ notReviewedPhotos \cap reviewedPhotos = {}
          /\ notReviewedPhotos \cup reviewedPhotos = 1..Len(photos)
          /\ \A i \in 1..Len(photos) : ~photos[i].reviewed => i \in notReviewedPhotos)
    /\ [][\A f \in FetchIds :
            (adminFetches[f].pc # "done" /\ adminFetches'[f].pc = "done")
            => /\ ListKeys(photos') = StoreKeys
               /\ Len(photos') = Cardinality(StoreKeys)]_vars

\* A fetchPhotos call has completed on a store where two houses hold a photo
\* of the same id, and both lists hold a photo.
C23_Witness ==
    /\ \E f \in FetchIds : adminFetches[f].pc = "done"
    /\ <<1, 1>> \in ListKeys(photos) /\ <<2, 1>> \in ListKeys(photos)
    /\ notReviewedPhotos # {}
    /\ reviewedPhotos # {}

\* C24: the dashboard with the photo lists and the Approve buttons is
\* rendered only with a user: once the observer has run, only while the
\* provider holds a session; with no user the login form is rendered; a
\* failed login leaves the session and the user as they were and alerts;
\* and a fetchPhotos call that completes after the logout does not bring
\* the dashboard back.
C24_ListsNeedSession ==
    /\ []((Dashboard /\ NoPendingCallback) => authUser # None)
    /\ []((~loading /\ user = None) => (LoginForm /\ ~Dashboard))
    /\ [][/\ LoginFails
            => /\ authUser' = authUser
               /\ user' = user
               /\ adminAlerts'
                    = Append(adminAlerts, "Failed to log in. Please check your credentials.")
          /\ \A f \in FetchIds :
               ( /\ adminFetches'[f].pc = "done" /\ adminFetches[f].pc # "done"
                 /\ user = None )
               => (~Dashboard' /\ LoginForm')]_vars

\* The login form is shown after a logout and a failed login, with the
\* fetched photos in memory.
C24_Witness ==
    /\ LoginForm
    /\ authUser = None
    /\ photos # <<>>
    /\ \E f \in FetchIds : adminFetches[f].pc = "done"
    /\ \E i \in 1..Len(adminAlerts) :
          adminAlerts[i] = "Failed to log in. Please check your credentials."

\* The photo documents that file i of batch b has appended.
RecordsOf(b, i) == { d \in dbPhotos : d.batch = b /\ d.fileName = i }

\* The steps of a per-file task, in their order.
StepOrder == <<"resize", "upload", "url", "addDoc", "ok">>

StepNo(pc) == CHOOSE n \in 1..Len(StepOrder) : StepOrder[n] = pc

\* C26: a per-file task goes through resize, upload, URL and addDoc in this
\* order or ends as failed; from the URL step on its object is stored; its
\* photo document exists exactly when the task has ended well, and then
\* the object it names is stored; a task that failed has appended none.
C26_UploadStepOrder ==
    /\ [](\A b \in BatchIds : \A i \in DOMAIN batches[b].tasks :
            LET pc  == batches[b].tasks[i]
                obj == [house |-> batches[b].house, name |-> i]
            IN  /\ pc \in {"url", "addDoc", "ok"} => obj \in storage
                /\ RecordsOf(b, i) # {} <=> pc = "ok"
                /\ pc = "ok" => /\ Cardinality(RecordsOf(b, i)) = 1
                                /\ \A d \in RecordsOf(b, i) :
                                      [house |-> d.house, name |-> d.fileName] \in storage)
    /\ [][\A b \in BatchIds : \A i \in DOMAIN batches[b].tasks :
            LET pc == batches[b].tasks[i]
            IN  (i \in DOMAIN batches'[b].tasks /\ batches'[b].tasks[i] # pc)
                => /\ pc \notin {"ok", "failed"}
                   /\ \/ batches'[b].tasks[i] = "failed"
                      \/ StepNo(batches'[b].tasks[i]) = StepNo(pc) + 1]_vars

\* Of a batch of two files the first has ended well and the second failed
\* after its object was stored: one photo document, two objects.
C26_Witness ==
    /\ batches[1].tasks = <<"ok", "failed">>
    /\ Cardinality({ d \in dbPhotos : d.batch = 1 }) = 1
    /\ [house |-> batches[1].house, name |-> 2] \in storage

\* C27: while the tasks of a batch run, the loading indicator is in the
\* page and the upload button of the batch is disabled; the `finally` block
\* (indicator removed, button enabled, gallery fetched again) runs only
\* when every task has ended, and the gallery it renders shows the photo of
\* every task of the batch that did not fail.
C27_IndicatorUntilSettled ==
    /\ [](\A b \in BatchIds :
            /\ batches[b].pc = "running"
                 => /\ indicators >= 1
                    /\ batches[b].btn => infoWindow.disabled
            /\ (batches[b].pc \in {"refetch", "done"} /\ batches[b].tasks # <<>>)
                 => AllSettled(b))
    /\ [][\A b \in BatchIds :
            RefetchResolve(b, TRUE)
            => \A i \in DOMAIN batches[b].tasks :
                  batches[b].tasks[i] # "failed"
                  => \E x \in infoWindow'.photos : x.name = i]_vars

\* C28: with a house without valid location in the list no effect throws,
\* neither the marker list nor the id-to-marker table holds a null entry,
\* and once the effects have run every house of the list with a valid
\* location has its marker on the map.
C28_InvalidHouseSkipped ==
    /\ ~crashed
    /\ \A i \in 1..Len(markersRef) : markersRef[i] # NullMarker
    /\ \A k \in DOMAIN markersMapRef : markersMapRef[k] # NullMarker
    /\ (Settled /\ map # NoMap)
         => \A i \in 1..Len(houses) :
               HasValidLocation(houses[i])
               => \E mk \in placed : mk.onMap = map /\ mk.house = houses[i].id

\* C29: the component creates one map and one house InfoWindow (maps and
\* InfoWindows are numbered in creation order, and every initMap call that
\* is pending will create one of each and a map click listener).
C29_OneMapOnePopup ==
    /\ map <= 1
    /\ infoWindow.inst <= 1
    /\ map + Len(initMaps) <= 1

\* A geocode callback runs for a request that failed: another status, or
\* OK without a usable address.
FailedGeocodeStep ==
    \/ \E i \in 1..MaxGeocodes : GeocodeFails(i)
    \/ \E i \in 1..MaxGeocodes : GeocodeNoResult(i)
    \/ SidebarGeocodeFails

\* C30: a geocode request that fails (another status than OK, or OK without
\* a usable address) opens no AddPrompt, selects no draft house and creates
\* no house; the user gets an alert and the popups stay as they were.
C30_FailedGeocodeNotifies ==
    [][FailedGeocodeStep =>
          /\ prompts' = prompts
          /\ addHouseInfoWindowRef' = addHouseInfoWindowRef
          /\ infoWindow' = infoWindow
          /\ selectedHouse' = selectedHouse
          /\ calls' = calls
          /\ dbHouses' = dbHouses
          /\ Len(geoAlerts') = Len(geoAlerts) + 1]_vars

\* The tick of timer t that clears it.
TickClears(t) == ZoomTick(t) /\ zoomTimers'[t].state = "cleared"

\* C31: every smoothZoom timer is cleared after finitely many ticks, also
\* with animations to both targets and direct zoom changes overlapping, and
\* the tick that clears a timer leaves the map at the target of the timer.
C31_ZoomTimersStop ==
    /\ \A t \in TimerIds : (zoomTimers[t].state = "running") ~> (zoomTimers[t].state = "cleared")
    /\ <>[](Running = {})
    /\ [][\A t \in TimerIds : TickClears(t) => zoom' = zoomTimers[t].targetZoom]_vars

\* An animation to 15 started while one to 17 was running, the zoom was
\* also changed directly, and all timers are cleared.
C31_Witness ==
    /\ Running = {}
    /\ setZooms > 0
    /\ \E t, u \in TimerIds :
          /\ t \in zoomTimers[u].startedWith
          /\ zoomTimers[t].targetZoom = 17
          /\ zoomTimers[u].targetZoom = 15
          /\ zoomTimers[u].state = "cleared"

\* The fetch of the mount effect and every addMarker call have completed.
RegistrySettled ==
    /\ fetchPc \in {"done", "failed"}
    /\ \A c \in CallIds : calls[c].pc \in {"free", "done"}

\* The addMarker calls were made for distinct addresses.
DistinctAddresses ==
    \A c, d \in CallIds :
        (c # d /\ calls[c].pc # "free" /\ calls[d].pc # "free")
            => NormalizeAddress(calls[c].address) # NormalizeAddress(calls[d].address)

\* C32: once the house fetch and the addMarker calls (for distinct
\* addresses) have completed, the local list holds every house the client
\* has written to the store.
C32_NoHouseLost ==
    (RegistrySettled /\ DistinctAddresses)
        => \A i \in 1..Len(dbHouses) : \E j \in 1..Len(houses) : houses[j].id = dbHouses[i].id

\* C33: addMarker issues the write of a house only after an existence check
\* that completed without a match; when the query fails or the normalized
\* address is empty the call issues no addDoc.
C33_WriteNeedsCompletedCheck ==
    \A c \in CallIds : calls[c].pc = "addDoc" => calls[c].check = "completed"

\* The fetch of showHouseInfoWindow call i resolves and no call is left
\* awaiting its photos.
LastFetchResolves(i) == PhotoFetchResolve(i, TRUE) /\ photoFetches' = <<>>

\* C34: when the last of several overlapping fetches has resolved, the house
\* InfoWindow shows the house that was opened last, on its marker.
C34_LastOpenedShown ==
    [][\A i \in 1..MaxFetches :
          LastFetchResolves(i)
            => /\ infoWindow'.house = photoFetches[i].last.house
               /\ photoFetches[i].marker = photoFetches[i].last]_vars

\* The `finally` block of batch b renders the gallery again.
Rerender(b) == RefetchResolve(b, TRUE)

\* C35: after the gallery has been rendered again at the end of an upload
\* batch, the upload button of the popup still reacts to a click: a domready
\* listener that will add its click listener is registered.
C35_ButtonReactsAfterRerender ==
    [][\A b \in BatchIds :
          Rerender(b) => Wire(domreadyOnce', infoWindow'.house) # <<>>]_vars

\* The batches started from the button in the page whose file chooser is
\* open or whose tasks run: their onchange handler will enable the button.
WillEnable == { b \in BatchIds : batches[b].btn /\ batches[b].pc \in {"dialog", "running"} }

\* C36: the upload button does not stay disabled for good, and at most one
\* batch of the popup is under way while it is disabled: a disabled button
\* has exactly one batch whose handler will enable it again.
C36_ButtonEnabledAgain ==
    infoWindow.disabled => Cardinality(WillEnable) = 1

\* No operation of the Admin page is under way.
AdminSettled ==
    /\ authEvents = <<>>
    /\ logins = 0 /\ logouts = 0
    /\ approves = <<>>
    /\ \A f \in FetchIds : adminFetches[f].pc \in {"free", "done", "failed"}

\* C37: when the approve calls, the logouts and logins and the photo
\* fetches they start have settled, every photo in the list has the
\* reviewed flag of its stored document.
C37_ListMatchesStore ==
    AdminSettled =>
        \A i \in 1..Len(photos) :
            \A d \in dbPhotos :
                (d.house = photos[i].houseId /\ d.id = photos[i].id)
                    => photos[i].reviewed = d.reviewed

\* `houses/${house.id}/photos/${optimizedFile.name}`: the storage path of
\* the object of photo document d.
StoragePath(d) == [house |-> d.house, name |-> d.fileName]

\* C38: distinct photo documents of a house refer to distinct stored
\* objects: no two documents have the same storage path.
C38_DistinctBlobs ==
    \A d, e \in dbPhotos : d # e => StoragePath(d) # StoragePath(e)

(***************************************************************************)
(* Specifications                                                          *)
(***************************************************************************)
\* The houses collection as the page finds it: houses written earlier, by
\* this client or by hand; a document may lack usable coordinates.
StoredHouse(id, address, location) ==
    [id |-> id, address |-> address, normalizedAddress |-> NormalizeAddress(address),
     location |-> location, hasLights |-> TRUE]

StoredCollections ==
    { <<>>,
      <<StoredHouse(1, <<"a">>, LatLng)>>,
      <<StoredHouse(1, <<"a">>, LatLng), StoredHouse(2, <<"b">>, NoCoords)>> }

\* The state after construction: no resizeImage call; the Home page and its
\* Map mounted, their mount effects run (fetchHouses and the first initMap
\* pending), on an empty houses collection.
Init ==
    /\ rpc = "idle"
    /\ quality = Dbl07
    /\ resizedImage = Undefined
    /\ attempts = <<>>
    /\ dbHouses = <<>>
    /\ houses = <<>>
    /\ selectedHouse = NoHouse
    /\ housesGen = 0
    /\ selectedGen = 0
    /\ fetchPc = "pending"
    /\ calls = [c \in CallIds |-> FreeCall]
    /\ mapUtils \in {"Map.js", "part_004"}
    /\ map = NoMap
    /\ deps = [houses |-> 0, selected |-> 0, map |-> NoMap]
    /\ initMaps = <<[houses |-> <<>>, cmap |-> NoMap]>>
    /\ infoWindow = NewInfoWindow(0)
    /\ addHouseInfoWindowRef = NoPrompt
    /\ markersRef = <<>>
    /\ markersMapRef = << >>
    /\ placed = {}
    /\ prompts = {}
    /\ geocodes = <<>>
    /\ photoFetches = <<>>
    /\ onceClick = {}
    /\ domreadyOnce = <<>>
    /\ sidebarGeocodes = 0
    /\ clickClosure = <<>>
    /\ crashed = FALSE
    /\ batches = [b \in BatchIds |-> FreeBatch]
    /\ indicators = 0
    /\ dbPhotos = {}
    /\ storage = {}
    /\ authUser = None
    /\ authEvents = <<None>>
    /\ user = None
    /\ loading = TRUE
    /\ photos = <<>>
    /\ adminFetches = [f \in FetchIds |-> FreeFetch]
    /\ logins = 0
    /\ logouts = 0
    /\ approves = <<>>
    /\ adminAlerts = <<>>
    /\ loginCalls = 0
    /\ normIn = <<>>
    /\ normOut = NoForms
    /\ normDone = {}
    /\ geoAlerts = <<>>
    /\ zoom = InitialZoom
    /\ zoomTimers = NoTimers
    /\ setZooms = 0

\* The same, on a houses collection that already holds houses.
InitStored ==
    /\ rpc = "idle"
    /\ quality = Dbl07
    /\ resizedImage = Undefined
    /\ attempts = <<>>
    /\ dbHouses \in StoredCollections
    /\ houses = <<>>
    /\ selectedHouse = NoHouse
    /\ housesGen = 0
    /\ selectedGen = 0
    /\ fetchPc = "pending"
    /\ calls = [c \in CallIds |-> FreeCall]
    /\ mapUtils \in {"Map.js", "part_004"}
    /\ map = NoMap
    /\ deps = [houses |-> 0, selected |-> 0, map |-> NoMap]
    /\ initMaps = <<[houses |-> <<>>, cmap |-> NoMap]>>
    /\ infoWindow = NewInfoWindow(0)
    /\ addHouseInfoWindowRef = NoPrompt
    /\ markersRef = <<>>
    /\ markersMapRef = << >>
    /\ placed = {}
    /\ prompts = {}
    /\ geocodes = <<>>
    /\ photoFetches = <<>>
    /\ onceClick = {}
    /\ domreadyOnce = <<>>
    /\ sidebarGeocodes = 0
    /\ clickClosure = <<>>
    /\ crashed = FALSE
    /\ batches = [b \in BatchIds |-> FreeBatch]
    /\ indicators = 0
    /\ dbPhotos = {}
    /\ storage = {}
    /\ authUser = None
    /\ authEvents = <<None>>
    /\ user = None
    /\ loading = TRUE
    /\ photos = <<>>
    /\ adminFetches = [f \in FetchIds |-> FreeFetch]
    /\ logins = 0
    /\ logouts = 0
    /\ approves = <<>>
    /\ adminAlerts = <<>>
    /\ loginCalls = 0
    /\ normIn = <<>>
    /\ normOut = NoForms
    /\ normDone = {}
    /\ geoAlerts = <<>>
    /\ zoom = InitialZoom
    /\ zoomTimers = NoTimers
    /\ setZooms = 0

\* The Admin page on a store that holds houses and photos; the browser may
\* hold the session of an earlier login.
StoredPhoto(house, id, reviewed) ==
    [house |-> house, id |-> id, fileName |-> id, batch |-> 0, reviewed |-> reviewed]

\* The objects that the upload of the stored photos wrote.
StoredObjects(db) == { [house |-> d.house, name |-> d.fileName] : d \in db }

StoredPhotoSets ==
    { {},
      { StoredPhoto(1, 1, FALSE), StoredPhoto(1, MaxStoredId, TRUE),
        StoredPhoto(2, 1, FALSE) } }

InitAdmin ==
    /\ rpc = "idle"
    /\ quality = Dbl07
    /\ resizedImage = Undefined
    /\ attempts = <<>>
    /\ dbHouses = <<StoredHouse(1, <<"a">>, LatLng), StoredHouse(2, <<"b">>, LatLng)>>
    /\ houses = <<>>
    /\ selectedHouse = NoHouse
    /\ housesGen = 0
    /\ selectedGen = 0
    /\ fetchPc = "pending"
    /\ calls = [c \in CallIds |-> FreeCall]
    /\ mapUtils \in {"Map.js", "part_004"}
    /\ map = NoMap
    /\ deps = [houses |-> 0, selected |-> 0, map |-> NoMap]
    /\ initMaps = <<[houses |-> <<>>, cmap |-> NoMap]>>
    /\ infoWindow = NewInfoWindow(0)
    /\ addHouseInfoWindowRef = NoPrompt
    /\ markersRef = <<>>
    /\ markersMapRef = << >>
    /\ placed = {}
    /\ prompts = {}
    /\ geocodes = <<>>
    /\ photoFetches = <<>>
    /\ onceClick = {}
    /\ domreadyOnce = <<>>
    /\ sidebarGeocodes = 0
    /\ clickClosure = <<>>
    /\ crashed = FALSE
    /\ batches = [b \in BatchIds |-> FreeBatch]
    /\ indicators = 0
    /\ dbPhotos \in StoredPhotoSets
    /\ storage = StoredObjects(dbPhotos)
    /\ authUser \in {None, "admin"}
    /\ authEvents = <<authUser>>
    /\ user = None
    /\ loading = TRUE
    /\ photos = <<>>
    /\ adminFetches = [f \in FetchIds |-> FreeFetch]
    /\ logins = 0
    /\ logouts = 0
    /\ approves = <<>>
    /\ adminAlerts = <<>>
    /\ loginCalls = 0
    /\ normIn = <<>>
    /\ normOut = NoForms
    /\ normDone = {}
    /\ geoAlerts = <<>>
    /\ zoom = InitialZoom
    /\ zoomTimers = NoTimers
    /\ setZooms = 0

AdminNext ==
    \/ AuthCallback
    \/ \E f \in FetchIds : AdminHousesResolve(f)
    \/ \E f \in FetchIds : AdminPhotosResolve(f)
    \/ \E f \in FetchIds : AdminFetchFails(f)
    \/ HandleLogin
    \/ LoginResolve
    \/ LoginFails
    \/ HandleLogout
    \/ LogoutResolve
    \/ LogoutFails
    \/ \E i \in 1..(2 * MaxStoredId) : HandleApprove(i)
    \/ \E k \in 1..MaxApproves : ApproveResolve(k)
    \/ \E k \in 1..MaxApproves : ApproveFails(k)

SpecAdmin == InitAdmin /\ [][AdminNext]_vars

\* The Map with the photo upload, and the Admin page of a browser that holds
\* a session, on one store: uploads of one file, one approve call at a time
\* and one login.
InitPhotos ==
    /\ rpc = "idle"
    /\ quality = Dbl07
    /\ resizedImage = Undefined
    /\ attempts = <<>>
    /\ dbHouses = <<StoredHouse(1, <<"a">>, LatLng)>>
    /\ houses = <<>>
    /\ selectedHouse = NoHouse
    /\ housesGen = 0
    /\ selectedGen = 0
    /\ fetchPc = "pending"
    /\ calls = [c \in CallIds |-> FreeCall]
    /\ mapUtils \in {"Map.js", "part_004"}
    /\ map = NoMap
    /\ deps = [houses |-> 0, selected |-> 0, map |-> NoMap]
    /\ initMaps = <<[houses |-> <<>>, cmap |-> NoMap]>>
    /\ infoWindow = NewInfoWindow(0)
    /\ addHouseInfoWindowRef = NoPrompt
    /\ markersRef = <<>>
    /\ markersMapRef = << >>
    /\ placed = {}
    /\ prompts = {}
    /\ geocodes = <<>>
    /\ photoFetches = <<>>
    /\ onceClick = {}
    /\ domreadyOnce = <<>>
    /\ sidebarGeocodes = 0
    /\ clickClosure = <<>>
    /\ crashed = FALSE
    /\ batches = [b \in BatchIds |-> FreeBatch]
    /\ indicators = 0
    /\ dbPhotos = {StoredPhoto(1, MaxStoredId, FALSE)}
    /\ storage = StoredObjects(dbPhotos)
    /\ authUser = "admin"
    /\ authEvents = <<authUser>>
    /\ user = None
    /\ loading = TRUE
    /\ photos = <<>>
    /\ adminFetches = [f \in FetchIds |-> FreeFetch]
    /\ logins = 0
    /\ logouts = 0
    /\ approves = <<>>
    /\ adminAlerts = <<>>
    /\ loginCalls = 0
    /\ normIn = <<>>
    /\ normOut = NoForms
    /\ normDone = {}
    /\ geoAlerts = <<>>
    /\ zoom = InitialZoom
    /\ zoomTimers = NoTimers
    /\ setZooms = 0

PhotosNext ==
    \/ FetchHousesResolve
    \/ RunEffects /\ WithinOneFetch
    \/ InitMapResolve
    \/ \E mk \in placed : MarkerClick(mk) /\ WithinOneFetch
    \/ \E i \in 1..MaxFetches : PhotoFetchResolve(i, TRUE) /\ WithinOneFetch
    \/ DomReady
    \/ UploadClick(1..OneBatch)
    \/ \E b \in BatchIds : FilesChosen(b, 1)
    \/ \E b \in BatchIds : TaskStep(b, 1)
    \/ \E b \in BatchIds : RefetchResolve(b, TRUE)
    \/ AuthCallback
    \/ \E f \in FetchIds : AdminHousesResolve(f)
    \/ \E f \in FetchIds : AdminPhotosResolve(f)
    \/ loginCalls = 0 /\ HandleLogin
    \/ LoginResolve
    \/ HandleLogout
    \/ LogoutResolve
    \/ approves = <<>> /\ \E i \in 1..(2 * MaxStoredId) : HandleApprove(i)
    \/ \E k \in 1..MaxApproves : ApproveResolve(k)

SpecPhotos == InitPhotos /\ [][PhotosNext]_vars

\* The normalisation of an address string by addMarker and by the Sidebar.
InitNormalize ==
    /\ rpc = "idle"
    /\ quality = Dbl07
    /\ resizedImage = Undefined
    /\ attempts = <<>>
    /\ dbHouses = <<>>
    /\ houses = <<>>
    /\ selectedHouse = NoHouse
    /\ housesGen = 0
    /\ selectedGen = 0
    /\ fetchPc = "pending"
    /\ calls = [c \in CallIds |-> FreeCall]
    /\ mapUtils = "part_004"
    /\ map = NoMap
    /\ deps = [houses |-> 0, selected |-> 0, map |-> NoMap]
    /\ initMaps = <<[houses |-> <<>>, cmap |-> NoMap]>>
    /\ infoWindow = NewInfoWindow(0)
    /\ addHouseInfoWindowRef = NoPrompt
    /\ markersRef = <<>>
    /\ markersMapRef = << >>
    /\ placed = {}
    /\ prompts = {}
    /\ geocodes = <<>>
    /\ photoFetches = <<>>
    /\ onceClick = {}
    /\ domreadyOnce = <<>>
    /\ sidebarGeocodes = 0
    /\ clickClosure = <<>>
    /\ crashed = FALSE
    /\ batches = [b \in BatchIds |-> FreeBatch]
    /\ indicators = 0
    /\ dbPhotos = {}
    /\ storage = {}
    /\ authUser = None
    /\ authEvents = <<authUser>>
    /\ user = None
    /\ loading = TRUE
    /\ photos = <<>>
    /\ adminFetches = [f \in FetchIds |-> FreeFetch]
    /\ logins = 0
    /\ logouts = 0
    /\ approves = <<>>
    /\ adminAlerts = <<>>
    /\ loginCalls = 0
    /\ normIn \in Strings
    /\ normOut = NoForms
    /\ normDone = {}
    /\ geoAlerts = <<>>
    /\ zoom = InitialZoom
    /\ zoomTimers = NoTimers
    /\ setZooms = 0

SpecNormalize == InitNormalize /\ [][NormalizeNext]_vars

SpecResize == Init /\ [][ResizeNext]_vars

SpecRegistry == Init /\ [][RegNext]_vars

\* The Home page with its Map: the house list and the markers.
MarkersNext ==
    \/ FetchHousesResolve
    \/ FetchHousesFail
    \/ \E c \in CallIds, address \in GeoAddresses, location \in Locations :
          AddMarkerCall(c, address, location)
    \/ \E c \in CallIds : ExistsResolve(c)
    \/ \E c \in CallIds : ExistsQueryFails(c)
    \/ \E c \in CallIds : AddDocResolve(c)
    \/ \E c \in CallIds : AddDocFails(c)
    \/ RunEffects /\ WithinOneFetch
    \/ InitMapResolve
    \/ \E i \in 1..MaxFetches, ok \in BOOLEAN : PhotoFetchResolve(i, ok) /\ WithinOneFetch

\* The Map with its popups.
PopupsNext ==
    \/ FetchHousesResolve
    \/ \E c \in CallIds : ExistsResolve(c)
    \/ \E c \in CallIds : AddDocResolve(c)
    \/ RunEffects /\ WithinOneFetch
    \/ InitMapResolve
    \/ MapClick
    \/ \E i \in 1..MaxGeocodes, address \in GeoAddresses : GeocodeResolve(i, address)
    \/ \E i \in 1..MaxGeocodes : GeocodeFails(i)
    \/ \E mk \in placed : MarkerClick(mk) /\ WithinOneFetch
    \/ \E i \in 1..MaxFetches, ok \in BOOLEAN : PhotoFetchResolve(i, ok) /\ WithinOneFetch
    \/ DomReady
    \/ InfoCloseClick
    \/ \E q \in prompts : PromptCloseClick(q)
    \/ \E q \in prompts, c \in 1..MaxConfirms : PromptConfirm(q, c)
    \/ \E address \in GeoAddresses : handleAddressSubmit(address)
    \/ \E address \in GeoAddresses : SidebarGeocodeResolve(address)

SpecPopups == InitStored /\ [][PopupsNext]_vars

\* Two stored houses with coordinates; the page as after construction.
TwoHouses == <<StoredHouse(1, <<"a">>, LatLng), StoredHouse(2, <<"b">>, LatLng)>>

InitOpenings ==
    /\ rpc = "idle"
    /\ quality = Dbl07
    /\ resizedImage = Undefined
    /\ attempts = <<>>
    /\ dbHouses = TwoHouses
    /\ houses = <<>>
    /\ selectedHouse = NoHouse
    /\ housesGen = 0
    /\ selectedGen = 0
    /\ fetchPc = "pending"
    /\ calls = [c \in CallIds |-> FreeCall]
    /\ mapUtils \in {"Map.js", "part_004"}
    /\ map = NoMap
    /\ deps = [houses |-> 0, selected |-> 0, map |-> NoMap]
    /\ initMaps = <<[houses |-> <<>>, cmap |-> NoMap]>>
    /\ infoWindow = NewInfoWindow(0)
    /\ addHouseInfoWindowRef = NoPrompt
    /\ markersRef = <<>>
    /\ markersMapRef = << >>
    /\ placed = {}
    /\ prompts = {}
    /\ geocodes = <<>>
    /\ photoFetches = <<>>
    /\ onceClick = {}
    /\ domreadyOnce = <<>>
    /\ sidebarGeocodes = 0
    /\ clickClosure = <<>>
    /\ crashed = FALSE
    /\ batches = [b \in BatchIds |-> FreeBatch]
    /\ indicators = 0
    /\ dbPhotos = {}
    /\ storage = {}
    /\ authUser = None
    /\ authEvents = <<None>>
    /\ user = None
    /\ loading = TRUE
    /\ photos = <<>>
    /\ adminFetches = [f \in FetchIds |-> FreeFetch]
    /\ logins = 0
    /\ logouts = 0
    /\ approves = <<>>
    /\ adminAlerts = <<>>
    /\ loginCalls = 0
    /\ normIn = <<>>
    /\ normOut = NoForms
    /\ normDone = {}
    /\ geoAlerts = <<>>
    /\ zoom = InitialZoom
    /\ zoomTimers = NoTimers
    /\ setZooms = 0

\* The Map with overlapping openings of the house InfoWindow: marker clicks
\* and selections of a listed house.
OpeningsNext ==
    \/ FetchHousesResolve
    \/ RunEffects
    \/ InitMapResolve
    \/ \E mk \in placed : MarkerClick(mk)
    \/ \E i \in 1..MaxFetches : PhotoFetchResolve(i, TRUE)
    \/ DomReady
    \/ \E address \in {<<"a">>, <<"b">>} : handleAddressSubmit(address)

SpecOpenings == InitOpenings /\ [][OpeningsNext]_vars

\* The zoom of the map with the timers of smoothZoom.
SpecZoom == Init /\ [][ZoomNext]_vars /\ ZoomFairness

\* The map click prompts and the Sidebar with the answers of the geocoder.
GeocodeNext ==
    \/ FetchHousesResolve
    \/ \E c \in CallIds : ExistsResolve(c)
    \/ \E c \in CallIds : AddDocResolve(c)
    \/ RunEffects /\ WithinOneFetch
    \/ InitMapResolve
    \/ MapClick
    \/ \E i \in 1..MaxGeocodes, address \in GeoAddresses : GeocodeResolve(i, address)
    \/ \E i \in 1..MaxGeocodes : GeocodeFails(i)
    \/ \E i \in 1..MaxGeocodes : GeocodeNoResult(i)
    \/ \E q \in prompts, c \in 1..MaxConfirms : PromptConfirm(q, c)
    \/ \E address \in GeoAddresses : handleAddressSubmit(address)
    \/ \E address \in GeoAddresses : SidebarGeocodeResolve(address)
    \/ SidebarGeocodeFails

SpecGeocode == InitStored /\ [][GeocodeNext]_vars

\* The Map with the house InfoWindow and the photo upload.
UploadNext ==
    \/ FetchHousesResolve
    \/ RunEffects /\ WithinOneFetch
    \/ InitMapResolve
    \/ \E mk \in placed : MarkerClick(mk) /\ WithinOneFetch
    \/ \E i \in 1..MaxFetches, ok \in BOOLEAN : PhotoFetchResolve(i, ok) /\ WithinOneFetch
    \/ DomReady
    \/ InfoCloseClick
    \/ UploadClick(1..OneBatch)
    \/ \E b \in BatchIds, n \in 0..MaxFiles : FilesChosen(b, n)
    \/ \E b \in BatchIds : DialogCancel(b)
    \/ \E b \in BatchIds, i \in 1..MaxFiles : TaskStep(b, i)
    \/ \E b \in BatchIds, i \in 1..MaxFiles : TaskFail(b, i)
    \/ \E b \in BatchIds, ok \in BOOLEAN : RefetchResolve(b, ok)

SpecUpload == InitStored /\ [][UploadNext]_vars

\* The same with several batches, of which the user starts one when no
\* other is under way and the popup of the house is left open.
NotifyNext ==
    \/ FetchHousesResolve
    \/ RunEffects /\ WithinOneFetch
    \/ InitMapResolve
    \/ \E mk \in placed : MarkerClick(mk) /\ WithinOneFetch
    \/ \E i \in 1..MaxFetches, ok \in BOOLEAN : PhotoFetchResolve(i, ok) /\ WithinOneFetch
    \/ DomReady
    \/ Idle /\ UploadClick(BatchIds)
    \/ \E b \in BatchIds, n \in 0..MaxFiles : FilesChosen(b, n)
    \/ \E b \in BatchIds, i \in 1..MaxFiles : TaskStep(b, i)
    \/ \E b \in BatchIds, i \in 1..MaxFiles : TaskFail(b, i)
    \/ \E b \in BatchIds, ok \in BOOLEAN : RefetchResolve(b, ok)

SpecNotify == InitStored /\ [][NotifyNext]_vars

SpecMarkers == InitStored /\ [][MarkersNext]_vars

====
